---- MODULE Spec2Model ----
(***************************************************************************)
(* RepoPulse: the worker pool (src/src/worker/pool.py) as a state machine. *)
(*                                                                         *)
(* The pool is a ThreadPoolExecutor with pool_size worker threads and an   *)
(* unbounded FIFO work queue.  Every statement of WorkerPool._run_job that *)
(* writes a JobRecord field is one step of the worker that runs it, so a   *)
(* reader (get_job / to_dict, which take no lock) can observe the record   *)
(* between any two of these writes.                                        *)
(*                                                                         *)
(* Spec and LiveSpec are the pool driven through start, shutdown and       *)
(* submit.  ListSpec, HealthSpec and WaitSpec add one caller each, of      *)
(* list_jobs, of health() and of shutdown(wait=True); ApiSpec puts the     *)
(* pool behind POST /jobs (src/src/api/routes.py, src/src/api/models.py).  *)
(***************************************************************************)
EXTENDS Integers, Sequences, FiniteSets, TLC

\* ---------------------------------------------------------------- bounds
PoolSize == 1          \* WorkerPool(pool_size=...)
MaxJobs  == 2          \* number of submit calls that create a record

\* ---------------------------------------------------------------- values
NoneStr  == "None"               \* Python None in a string-valued field
NoTime   == -1                   \* Python None in a timestamp field
NoResult == [none |-> TRUE]      \* Python None in record.result

\* Job ids are opaque strings (uuid4 in routes.py:100); a caller either reuses
\* an id that is in the table or passes the next unused one.
JobIds == 1..2

\* What submit() was given: a repo_url, a local_path that is a directory,
\* a local_path that is not on disk, or neither argument.
SourceKinds == {"repo_url", "local_dir", "local_missing", "neither"}

NotRunningMsg  == "Worker pool is not running"                 \* pool.py:83
AfterShutdownMsg == "cannot schedule new futures after shutdown" \* concurrent.futures
NoSourceMsg    == "No repo_url or local_path provided"         \* pool.py:136
CloneErrors    == {"Git clone failed"}      \* str(GitCloneError), git_clone.py:49,58
LocErrors      == {"scan error"}      \* any Exception out of count_loc_in_directory

ZeroChurn     == "zero"       \* {"added": 0, "deleted": 0, "modified": 0, "total": 0}
ComputedChurn == "computed"   \* the dict returned by compute_repo_churn
NoChurn       == "absent"     \* result has no "churn" key yet

VARIABLES
    executor,   \* self._executor: "none" | "running" | "shutdown"
    records,    \* every JobRecord ever constructed, in construction order
    jobs,       \* self._jobs: job_id -> index into records (0: no entry)
    queue,      \* the executor's work queue: indexes into records, FIFO
    worker,     \* per worker thread: position in _run_job and its locals
    waiting,    \* a caller is blocked inside shutdown(wait=True)
    lastCall,   \* what the most recent pool API call raised: the exception's
                \* message, None when the call returned
    snapshot,   \* a caller of list_jobs: the list it was given
    health,     \* a caller of health(): its position in the call and its sums
    inflight,   \* a caller of shutdown(wait=True): the jobs that were queued
                \* or processing when it made the call
    counter     \* one call of a metrics function (count_loc_in_content,
                \* count_loc_in_directory, compute_repo_churn or
                \* compute_daily_churn): its argument and its locals

\* The pool and its worker threads.
pool == <<executor, records, jobs, queue, worker, waiting, lastCall>>

\* The callers that read the pool.  No step of the pool or of a worker
\* reads or writes these.
readers == <<snapshot, health, inflight>>

vars == <<executor, records, jobs, queue, worker, waiting, lastCall,
          snapshot, health, inflight, counter>>

\* (variant: an executor created with one thread too many)
Workers_plus_one == 1..(PoolSize + 1)
\* pool.py:66-69  ThreadPoolExecutor(max_workers=self.pool_size)
Workers == 1..PoolSize

\* ---------------------------------------------------------------- JobRecord
\* (created_at is written once by the constructor and never read by the pool;
\* it is left out.)
JobRecord(job_id, source) ==
    [ job_id       |-> job_id,
      source       |-> source,
      status       |-> "queued",
      started_at   |-> NoTime,
      completed_at |-> NoTime,
      result       |-> NoResult,
      error        |-> NoneStr,
      future       |-> FALSE ]

IdleWorker ==
    [ pc |-> "idle", rec |-> 0, repo |-> "none", tmp |-> FALSE,
      loc |-> -1, exc |-> NoneStr ]

\* datetime.now().  No part of the program compares the timestamps of two
\* different records, so a record's timestamps are kept as offsets from the
\* instant its job started: line 125 reads 0, and line 231 reads the time
\* that has passed since (the wall clock is taken not to be set back while
\* a job runs).
StartInstant == 0
Elapsed == {1}

\* Before any reader has called.
NoSnapshot == [dicts |-> <<>>, returned |-> <<>>]

NoHealthCall == [pc |-> "none", queued |-> 0, processing |-> 0,
                 completed |-> 0, failed |-> 0, total |-> 0]

\* No call of a metrics function (src/src/metrics) is under way.
NoCall == [pc |-> "none"]

Init ==
    /\ executor = "none"
    /\ records = <<>>
    /\ jobs = [id \in JobIds |-> 0]
    /\ queue = <<>>
    /\ worker = [w \in Workers |-> IdleWorker]
    /\ waiting = FALSE
    /\ lastCall = NoneStr
    /\ snapshot = NoSnapshot
    /\ health = NoHealthCall
    /\ inflight = {}
    /\ counter = NoCall

\* ---------------------------------------------------------------- helpers
SetField(i, f, v) == [records EXCEPT ![i][f] = v]

At(w, label) == worker[w].pc = label

Goto(w, label) == worker' = [worker EXCEPT ![w].pc = label]

\* How an API call ends: it raises an exception with message err, or returns.
Raised(err) == lastCall' = err

Returned(v) == lastCall' = v

\* ---------------------------------------------------------------- lifecycle
\* (variant: a start that always creates a fresh executor, which has its own
\* empty work queue)
Start_recreate ==
    /\ executor' = "running"
    /\ queue' = <<>>
    /\ Returned(NoneStr)
    /\ UNCHANGED <<records, jobs, worker, waiting>>
\* WorkerPool.start: creates the executor unless one exists already.
Start ==
    /\ executor' = IF executor # "none" THEN executor ELSE "running"
    /\ Returned(NoneStr)
    /\ UNCHANGED <<records, jobs, queue, worker, waiting>>

\* (variant: a shutdown that stops the worker threads where they are)
Shutdown_interrupting(wait) ==
    /\ ~waiting
    /\ executor' = IF executor = "none" THEN "none" ELSE "shutdown"
    /\ IF executor # "none" /\ wait
         THEN waiting' = TRUE /\ UNCHANGED lastCall
         ELSE UNCHANGED waiting /\ Returned(NoneStr)
    /\ worker' = IF executor = "none" THEN worker ELSE [w \in Workers |-> IdleWorker]
    /\ UNCHANGED <<records, jobs, queue>>
\* WorkerPool.shutdown(wait): "if self._executor:" then executor.shutdown.
\* The executor stops accepting work; queued work items stay in the queue
\* and the worker threads keep draining it.  With wait=True the caller
\* blocks until every worker thread has exited (ShutdownReturn).
Shutdown(wait) ==
    /\ ~waiting
    /\ executor' = IF executor = "none" THEN "none" ELSE "shutdown"
    /\ IF executor # "none" /\ wait
         THEN waiting' = TRUE /\ UNCHANGED lastCall
         ELSE UNCHANGED waiting /\ Returned(NoneStr)
    /\ UNCHANGED <<records, jobs, queue, worker>>

ShutdownReturn ==
    /\ waiting
    /\ queue = <<>>
    /\ \A w \in Workers : worker[w].pc = "idle"
    /\ waiting' = FALSE
    /\ Returned(NoneStr)
    /\ UNCHANGED <<executor, records, jobs, queue, worker>>

\* ---------------------------------------------------------------- submit
\* (variant: submit without the running check)
PoolNotRunning_never(ex) == FALSE
\* pool.py:82  "if self._executor is None"
PoolNotRunning(ex) == ex = "none"

\* ThreadPoolExecutor.submit: refuses after shutdown, else enqueues.
ExecutorAccepts(ex) == ex = "running"

ExecutorRefusal(ex) ==
    IF ex = "shutdown" THEN AfterShutdownMsg ELSE "AttributeError"

\* WorkerPool.submit(job_id, repo_url, local_path)
Submit(id, source) ==
    IF PoolNotRunning(executor)
    THEN /\ Raised(NotRunningMsg)
         /\ UNCHANGED <<executor, records, jobs, queue, worker, waiting>>
    ELSE /\ Len(records) < MaxJobs
         /\ \A k \in 1..(id - 1) : jobs[k] # 0
         /\   LET n   == Len(records) + 1
                  rec == JobRecord(id, source)
              IN  /\ jobs' = [jobs EXCEPT ![id] = n]            \* pool.py:86-87
                  /\ IF ExecutorAccepts(executor)               \* pool.py:89
                       THEN /\ records' = Append(records, [rec EXCEPT !.future = TRUE])
                            /\ queue' = Append(queue, n)
                            /\ Returned(NoneStr)
                       ELSE /\ records' = Append(records, rec)
                            /\ queue' = queue
                            /\ Raised(ExecutorRefusal(executor))
         /\ UNCHANGED <<executor, worker, waiting>>

\* pool.py:82-89   submit up to the return of self._executor.submit: the
\* record is in the table and its work item in the executor's queue, and
\* the calling thread has not yet come to line 90.  lastCall holds the
\* position of the call until it ends.
SubmitEnqueue(id, source) ==
    IF PoolNotRunning(executor)
    THEN /\ Raised(NotRunningMsg)
         /\ UNCHANGED <<executor, records, jobs, queue, worker, waiting>>
    ELSE /\ Len(records) < MaxJobs
         /\ \A k \in 1..(id - 1) : jobs[k] # 0
         /\ jobs' = [jobs EXCEPT ![id] = Len(records) + 1]      \* pool.py:86-87
         /\ records' = Append(records, JobRecord(id, source))
         /\ IF ExecutorAccepts(executor)                        \* pool.py:89
              THEN /\ queue' = Append(queue, Len(records) + 1)
                   /\ lastCall' = "L90"
              ELSE /\ queue' = queue
                   /\ Raised(ExecutorRefusal(executor))
         /\ UNCHANGED <<executor, worker, waiting>>

\* pool.py:90-91   record.future = future; return record
SubmitSetFuture ==
    /\ lastCall = "L90"
    /\ records' = SetField(Len(records), "future", TRUE)
    /\ Returned(NoneStr)
    /\ UNCHANGED <<executor, jobs, queue, worker, waiting>>

\* ---------------------------------------------------------------- executor
\* (variant: shutdown cancels the work items that are still queued)
CanTake_until_shutdown(ex, q) == q # <<>> /\ ex = "running"
\* A worker thread blocks on the work queue and runs whatever it gets;
\* shutdown does not cancel pending work items.
CanTake(ex, q) == q # <<>>

\* (variant: a work item stays in the queue when a thread takes it)
Take_keep_queued(w) ==
    /\ At(w, "idle")
    /\ \A v \in Workers : v < w => worker[v].pc # "idle"
    /\ CanTake(executor, queue)
    /\ worker' = [worker EXCEPT ![w] = [IdleWorker EXCEPT !.pc = "L124", !.rec = Head(queue)]]
    /\ UNCHANGED <<executor, records, jobs, queue, waiting, lastCall>>
\* An idle worker thread takes the oldest work item: _run_job(record) begins.
\* The threads are interchangeable, so the idle thread with the lowest number
\* stands for whichever idle thread wakes up.
Take(w) ==
    /\ At(w, "idle")
    /\ \A v \in Workers : v < w => worker[v].pc # "idle"
    /\ CanTake(executor, queue)
    /\ worker' = [worker EXCEPT ![w] = [IdleWorker EXCEPT !.pc = "L124", !.rec = Head(queue)]]
    /\ queue' = Tail(queue)
    /\ UNCHANGED <<executor, records, jobs, waiting, lastCall>>

\* ---------------------------------------------------------------- _run_job
\* pool.py:124   record.status = "processing"
RunSetProcessing(w) ==
    /\ At(w, "L124")
    /\ records' = SetField(worker[w].rec, "status", "processing")
    /\ Goto(w, "L125")
    /\ UNCHANGED <<executor, jobs, queue, waiting, lastCall>>

\* pool.py:125   record.started_at = now()
RunSetStarted(w) ==
    /\ At(w, "L125")
    /\ records' = SetField(worker[w].rec, "started_at", StartInstant)
    /\ Goto(w, "L131")
    /\ UNCHANGED <<executor, jobs, queue, waiting, lastCall>>

\* An exception raised inside the try block: control goes to line 226.
Raise(w, msg) == [worker[w] EXCEPT !.pc = "L227", !.exc = msg]

\* (variant: a local path is handed to clone() as well, which copies a
\* directory into a temp directory, git_clone.py:29-36)
RunResolve_copy(w) ==
    /\ At(w, "L131")
    /\ LET src == records[worker[w].rec].source
       IN  \/ /\ src \in {"repo_url", "local_dir"}
              /\ \/ worker' = [worker EXCEPT ![w] =
                        [worker[w] EXCEPT !.pc = "L139", !.repo = "clone", !.tmp = TRUE]]
                 \/ \E msg \in CloneErrors :
                        worker' = [worker EXCEPT ![w] = Raise(w, msg)]
           \/ /\ src = "local_missing"
              /\ worker' = [worker EXCEPT ![w] =
                        [worker[w] EXCEPT !.pc = "L139", !.repo = src]]
           \/ /\ src = "neither"
              /\ worker' = [worker EXCEPT ![w] = Raise(w, NoSourceMsg)]
    /\ UNCHANGED <<executor, records, jobs, queue, waiting, lastCall>>
\* pool.py:131-136 and git_clone.py:22-58.  clone() makes a temp directory,
\* and removes it again itself before raising GitCloneError.
RunResolve(w) ==
    /\ At(w, "L131")
    /\ LET src == records[worker[w].rec].source
       IN  \/ /\ src = "repo_url"
              /\ \/ worker' = [worker EXCEPT ![w] =
                        [worker[w] EXCEPT !.pc = "L139", !.repo = "clone", !.tmp = TRUE]]
                 \/ \E msg \in CloneErrors :
                        worker' = [worker EXCEPT ![w] = Raise(w, msg)]
           \/ /\ src \in {"local_dir", "local_missing"}
              /\ worker' = [worker EXCEPT ![w] =
                        [worker[w] EXCEPT !.pc = "L139", !.repo = src]]
           \/ /\ src = "neither"
              /\ worker' = [worker EXCEPT ![w] = Raise(w, NoSourceMsg)]
    /\ UNCHANGED <<executor, records, jobs, queue, waiting, lastCall>>

\* loc.py:279-354 as the job sees it: total_loc of the ProjectLOC.  os.walk
\* over a path that is not a directory yields nothing (its onerror is None),
\* so the scan of a missing path returns the empty project, total_loc 0.
DirLoc == 3
count_loc_in_directory(repo) == IF repo = "local_missing" THEN 0 ELSE DirLoc

\* (variant: the cloner is cleaned up as soon as the scan has returned,
\* before the churn of the same directory is computed)
RunLoc_then_cleanup(w) ==
    /\ At(w, "L139")
    /\ \/ worker' = [worker EXCEPT ![w] =
              [worker[w] EXCEPT !.pc = "L142", !.loc = count_loc_in_directory(worker[w].repo),
                                !.tmp = FALSE]]
       \/ /\ worker[w].repo # "local_missing"
          /\ \E msg \in LocErrors : worker' = [worker EXCEPT ![w] = Raise(w, msg)]
    /\ UNCHANGED <<executor, records, jobs, queue, waiting, lastCall>>
\* pool.py:139   project_loc = count_loc_in_directory(repo_path)
RunLoc(w) ==
    /\ At(w, "L139")
    /\ \/ worker' = [worker EXCEPT ![w] =
              [worker[w] EXCEPT !.pc = "L142", !.loc = count_loc_in_directory(worker[w].repo)]]
       \/ /\ worker[w].repo # "local_missing"
          /\ \E msg \in LocErrors : worker' = [worker EXCEPT ![w] = Raise(w, msg)]
    /\ UNCHANGED <<executor, records, jobs, queue, waiting, lastCall>>

\* pool.py:142-200   the metric writes: every write_loc_metric call returns,
\* or one of them raises and control goes to the handler at line 201.
RunInflux(w) ==
    /\ At(w, "L142")
    /\ Goto(w, "L205") \/ Goto(w, "L201")
    /\ UNCHANGED <<executor, records, jobs, queue, waiting, lastCall>>

\* (variant: a sink failure that is passed on to the handler at line 226)
RunInfluxFailed_unswallowed(w) ==
    /\ At(w, "L201")
    /\ worker' = [worker EXCEPT ![w] = Raise(w, "sink error")]
    /\ UNCHANGED <<executor, records, jobs, queue, waiting, lastCall>>
\* pool.py:201-202   except Exception as influx_err: logger.warning(...)
RunInfluxFailed(w) ==
    /\ At(w, "L201")
    /\ Goto(w, "L205")
    /\ UNCHANGED <<executor, records, jobs, queue, waiting, lastCall>>

\* (variant: the job is marked completed as soon as the LOC result is stored,
\* before churn is computed)
RunSetResult_and_complete(w) ==
    /\ At(w, "L205")
    /\ records' = [records EXCEPT
                      ![worker[w].rec].result = [total_loc |-> worker[w].loc, churn |-> NoChurn],
                      ![worker[w].rec].status = "completed"]
    /\ Goto(w, "L217")
    /\ UNCHANGED <<executor, jobs, queue, waiting, lastCall>>
\* pool.py:205-213   record.result = {...}
RunSetResult(w) ==
    /\ At(w, "L205")
    /\ records' = SetField(worker[w].rec, "result",
                           [total_loc |-> worker[w].loc, churn |-> NoChurn])
    /\ Goto(w, "L217")
    /\ UNCHANGED <<executor, jobs, queue, waiting, lastCall>>

\* (variant: a churn failure that is not caught at line 219)
RunChurn_unswallowed(w) ==
    /\ At(w, "L217")
    /\ \/ worker[w].repo # "local_missing" /\ Goto(w, "L218")
       \/ worker' = [worker EXCEPT ![w] = Raise(w, "churn error")]
    /\ UNCHANGED <<executor, records, jobs, queue, waiting, lastCall>>
\* pool.py:217   compute_repo_churn returns or raises; a path without a
\* .git directory always raises (git_history.py:12-17).
RunChurn(w) ==
    /\ At(w, "L217")
    /\ \/ worker[w].repo # "local_missing" /\ Goto(w, "L218")
       \/ Goto(w, "L221")
    /\ UNCHANGED <<executor, records, jobs, queue, waiting, lastCall>>

\* (variant: a churn handler that only logs and stores no churn entry)
RunSetChurn_no_default(w) ==
    /\ At(w, "L218") \/ At(w, "L221")
    /\ LET i == worker[w].rec
       IN  records' = SetField(i, "result",
               [records[i].result EXCEPT !.churn =
                   IF At(w, "L218") THEN ComputedChurn ELSE NoChurn])
    /\ Goto(w, "L223")
    /\ UNCHANGED <<executor, jobs, queue, waiting, lastCall>>
\* pool.py:218 / pool.py:221   record.result["churn"] = ...
RunSetChurn(w) ==
    /\ At(w, "L218") \/ At(w, "L221")
    /\ LET i == worker[w].rec
       IN  records' = SetField(i, "result",
               [records[i].result EXCEPT !.churn =
                   IF At(w, "L218") THEN ComputedChurn ELSE ZeroChurn])
    /\ Goto(w, "L223")
    /\ UNCHANGED <<executor, jobs, queue, waiting, lastCall>>

\* pool.py:223   record.status = "completed"
RunSetCompleted(w) ==
    /\ At(w, "L223")
    /\ records' = SetField(worker[w].rec, "status", "completed")
    /\ Goto(w, "L231")
    /\ UNCHANGED <<executor, jobs, queue, waiting, lastCall>>

\* (variant: a handler that puts the job back to queued for a retry)
RunSetFailed_requeue(w) ==
    /\ At(w, "L227")
    /\ records' = SetField(worker[w].rec, "status", "queued")
    /\ Goto(w, "L228")
    /\ UNCHANGED <<executor, jobs, queue, waiting, lastCall>>
\* pool.py:226-227   except (GitCloneError, Exception): record.status = "failed"
RunSetFailed(w) ==
    /\ At(w, "L227")
    /\ records' = SetField(worker[w].rec, "status", "failed")
    /\ Goto(w, "L228")
    /\ UNCHANGED <<executor, jobs, queue, waiting, lastCall>>

\* (variant: a handler that stores a fixed text instead of str(exc))
RunSetError_generic(w) ==
    /\ At(w, "L228")
    /\ records' = SetField(worker[w].rec, "error", "job failed")
    /\ Goto(w, "L231")
    /\ UNCHANGED <<executor, jobs, queue, waiting, lastCall>>
\* pool.py:228   record.error = str(exc)
RunSetError(w) ==
    /\ At(w, "L228")
    /\ records' = SetField(worker[w].rec, "error", worker[w].exc)
    /\ Goto(w, "L231")
    /\ UNCHANGED <<executor, jobs, queue, waiting, lastCall>>

\* pool.py:231   finally: record.completed_at = now()
RunSetCompletedAt(w) ==
    /\ At(w, "L231")
    /\ \E dt \in Elapsed :
         records' = SetField(worker[w].rec, "completed_at",
                             records[worker[w].rec].started_at + dt)
    /\ Goto(w, "L232")
    /\ UNCHANGED <<executor, jobs, queue, waiting, lastCall>>

\* git_clone.py:101-104   GitRepoCloner.cleanup: removes the temp directory
\* if the cloner has one; tells whether a temp directory is left.
cleanup(tmp) == FALSE

\* (variant: cleanup as the last statement of the try body, not in finally)
RunCleanup_on_success_only(w) ==
    /\ At(w, "L232")
    /\ worker' = [worker EXCEPT ![w] = [IdleWorker EXCEPT !.tmp =
                    IF worker[w].exc = NoneStr THEN cleanup(worker[w].tmp)
                                               ELSE worker[w].tmp]]
    /\ UNCHANGED <<executor, records, jobs, queue, waiting, lastCall>>
\* pool.py:232   finally: cloner.cleanup(); _run_job returns and the worker
\* thread goes back to the work queue.  tmp of an idle thread tells
\* whether the temp directory of the job it ran last is still on disk.
RunCleanup(w) ==
    /\ At(w, "L232")
    /\ worker' = [worker EXCEPT ![w] = [IdleWorker EXCEPT !.tmp = cleanup(worker[w].tmp)]]
    /\ UNCHANGED <<executor, records, jobs, queue, waiting, lastCall>>

RunJob(w) ==
    \/ RunSetProcessing(w)
    \/ RunSetStarted(w)
    \/ RunResolve(w)
    \/ RunLoc(w)
    \/ RunInflux(w)
    \/ RunInfluxFailed(w)
    \/ RunSetResult(w)
    \/ RunChurn(w)
    \/ RunSetChurn(w)
    \/ RunSetCompleted(w)
    \/ RunSetFailed(w)
    \/ RunSetError(w)
    \/ RunSetCompletedAt(w)
    \/ RunCleanup(w)

\* ---------------------------------------------------------------- readers
\* self._jobs.values(): the records the table holds, in insertion order.  A
\* dict keeps the position of a key whose value is replaced, and ids enter
\* the table in the order 1, 2, ...
TableIds == {id \in JobIds : jobs[id] # 0}

Table == [k \in 1..Cardinality(TableIds) |-> jobs[k]]

\* pool.py:36-47   JobRecord.to_dict: a new dict whose values are the
\* record's field values.  Strings are immutable; "result" is the record's
\* own result dict, not a copy of it.  A record is given its result dict
\* once (line 205), so that dict object is named by the record's index
\* (0: the field was None).
to_dict(i) ==
    [ job_id       |-> records[i].job_id,
      status       |-> records[i].status,
      source       |-> records[i].source,
      started_at   |-> records[i].started_at,
      completed_at |-> records[i].completed_at,
      result       |-> IF records[i].result = NoResult THEN 0 ELSE i,
      error        |-> records[i].error ]

\* What a caller reads in a dict that to_dict gave it: the values, and under
\* "result" the present content of the dict object it refers to.
ReadDict(d) ==
    [d EXCEPT !.result = IF d.result = 0 THEN NoResult ELSE records[d.result].result]

\* pool.py:98-99   WorkerPool.list_jobs: [r.to_dict() for r in _jobs.values()]
ListJobs ==
    /\ snapshot' =
         [ dicts    |-> [k \in DOMAIN Table |-> to_dict(Table[k])],
           returned |-> [k \in DOMAIN Table |-> ReadDict(to_dict(Table[k]))] ]
    /\ Returned(NoneStr)
    /\ UNCHANGED <<executor, records, jobs, queue, worker, waiting, health, inflight>>

\* sum(1 for j in self._jobs.values() if j.status == st)
CountStatus(st) == Cardinality({id \in TableIds : records[jobs[id]].status = st})

\* health() holds self._lock from line 104 until the sum of line 108 is
\* done; submit needs the same lock for its insert (line 86).
HealthHoldsLock == health.pc \in {"L106", "L107", "L108"}

\* pool.py:104-105   with self._lock: queued = sum(...)
HealthQueued ==
    /\ health.pc \in {"none", "done"}
    /\ health' = [NoHealthCall EXCEPT !.pc = "L106", !.queued = CountStatus("queued")]
    /\ UNCHANGED <<executor, records, jobs, queue, worker, waiting, lastCall,
                   snapshot, inflight>>

\* pool.py:106   processing = sum(...)
HealthProcessing ==
    /\ health.pc = "L106"
    /\ health' = [health EXCEPT !.pc = "L107", !.processing = CountStatus("processing")]
    /\ UNCHANGED <<executor, records, jobs, queue, worker, waiting, lastCall,
                   snapshot, inflight>>

\* pool.py:107   completed = sum(...)
HealthCompleted ==
    /\ health.pc = "L107"
    /\ health' = [health EXCEPT !.pc = "L108", !.completed = CountStatus("completed")]
    /\ UNCHANGED <<executor, records, jobs, queue, worker, waiting, lastCall,
                   snapshot, inflight>>

\* pool.py:108   failed = sum(...); the with block ends, the lock is free
HealthFailed ==
    /\ health.pc = "L108"
    /\ health' = [health EXCEPT !.pc = "L110", !.failed = CountStatus("failed")]
    /\ UNCHANGED <<executor, records, jobs, queue, worker, waiting, lastCall,
                   snapshot, inflight>>

\* pool.py:110-118   return {..., "total_jobs": len(self._jobs)}
HealthReturn ==
    /\ health.pc = "L110"
    /\ health' = [health EXCEPT !.pc = "done", !.total = Cardinality(TableIds)]
    /\ Returned(NoneStr)
    /\ UNCHANGED <<executor, records, jobs, queue, worker, waiting, snapshot, inflight>>

\* The dict that health() returned.
HealthResult ==
    [ pool_size       |-> PoolSize,
      active_workers  |-> health.processing,
      queued_jobs     |-> health.queued,
      processing_jobs |-> health.processing,
      completed_jobs  |-> health.completed,
      failed_jobs     |-> health.failed,
      total_jobs      |-> health.total ]

\* ---------------------------------------------------------------- POST /jobs
\* A string is the sequence of its pieces.  A local_path is made of single
\* characters; a repo_url of the pieces the URL pattern tells apart.
Absent == <<"None">>                       \* the field is missing or null

RECURSIVE lstrip(_)
lstrip(s) == IF s # <<>> /\ Head(s) = " " THEN lstrip(Tail(s)) ELSE s

RECURSIVE rstrip(_)
rstrip(s) == IF s # <<>> /\ s[Len(s)] = " " THEN rstrip(SubSeq(s, 1, Len(s) - 1)) ELSE s

\* str.strip()
strip(s) == rstrip(lstrip(s))

\* v.startswith("/")
startswith_slash(s) == s # <<>> /\ Head(s) = "/"

\* ".." in v
contains_dotdot(s) == \E k \in 1..(Len(s) - 1) : s[k] = "." /\ s[k + 1] = "."

\* Pieces that consist of characters of the class [a-zA-Z0-9_.-] only.
NameTokens == {"o", "r", ".git", "github.com", "gitlab.com"}

IsName(s) == s # <<>> /\ \A k \in DOMAIN s : s[k] \in NameTokens

\* models.py:9-11   GITHUB_URL_PATTERN.match(v):
\* ^https?://github\.com/[a-zA-Z0-9_.-]+/[a-zA-Z0-9_.-]+(\.git)?/?$
\* (".git" is itself made of characters of the class, so the optional group
\* accepts nothing that the second name does not.)
GITHUB_URL_PATTERN(u) ==
    /\ Len(u) >= 6
    /\ u[1] \in {"http://", "https://"}
    /\ u[2] = "github.com"
    /\ u[3] = "/"
    /\ LET rest == SubSeq(u, 4, Len(u))
           body == IF rest[Len(rest)] = "/" THEN SubSeq(rest, 1, Len(rest) - 1) ELSE rest
       IN  \E k \in 2..(Len(body) - 1) :
               /\ body[k] = "/"
               /\ IsName(SubSeq(body, 1, k - 1))
               /\ IsName(SubSeq(body, k + 1, Len(body)))

\* A field validator gives the value the field gets, or raises ValueError.
Valid(v) == [ok |-> TRUE, value |-> v]

Invalid == [ok |-> FALSE, value |-> Absent]

\* models.py:27-39   JobRequest.validate_repo_url
validate_repo_url(v) ==
    IF v = Absent THEN Valid(v)
    ELSE LET s == strip(v)
         IN  IF s = <<>> THEN Invalid
             ELSE IF ~GITHUB_URL_PATTERN(s) THEN Invalid
             ELSE Valid(s)

\* (variant: a validator without the check for "..")
validate_local_path_no_dotdot(v) ==
    IF v = Absent THEN Valid(v)
    ELSE LET s == strip(v)
         IN  IF s = <<>> THEN Invalid
             ELSE IF ~startswith_slash(s) THEN Invalid
             ELSE Valid(s)
\* models.py:41-52   JobRequest.validate_local_path
validate_local_path(v) ==
    IF v = Absent THEN Valid(v)
    ELSE LET s == strip(v)
         IN  IF s = <<>> THEN Invalid
             ELSE IF ~startswith_slash(s) THEN Invalid
             ELSE IF contains_dotdot(s) THEN Invalid
             ELSE Valid(s)

\* models.py:54-58   JobRequest.model_post_init: TRUE when it raises.  An
\* absent field is None and a validated string is not empty.
model_post_init(repo_url, local_path) ==
    \/ repo_url = Absent /\ local_path = Absent
    \/ repo_url # Absent /\ local_path # Absent

\* JobRequest(**body): the validated fields, or ValidationError.  pydantic
\* runs the field validators first and model_post_init only when both
\* passed; a ValueError from either becomes a ValidationError.
JobRequest(body) ==
    LET u == validate_repo_url(body.repo_url)
        p == validate_local_path(body.local_path)
    IN  IF ~u.ok \/ ~p.ok THEN [ok |-> FALSE]
        ELSE IF model_post_init(u.value, p.value) THEN [ok |-> FALSE]
        ELSE [ok |-> TRUE, repo_url |-> u.value, local_path |-> p.value]

\* The request bodies that are tried.
UrlInputs ==
    { <<>>, <<" ">>,
      <<"https://", "github.com", "/", "o", "/", "r">>,
      <<" ", "http://", "github.com", "/", "o", "/", "r", ".git", "/">>,
      <<"ftp://", "github.com", "/", "o", "/", "r">>,
      <<"https://", "gitlab.com", "/", "o", "/", "r">>,
      <<"https://", "github.com", "/", "o">>,
      <<"https://", "github.com", "/", "o", "/", "r", "/", "r">> }

PathInputs ==
    { <<>>, <<" ">>,
      <<"/", "a">>,
      <<" ", "/", "a", " ">>,
      <<"a">>,
      <<"a", "/", "a">>,
      <<".", ".", "/", "a">>,
      <<"/", ".", ".", "/", "a">>,
      <<"/", "a", ".", ".">>,
      <<"/", ".", "a">> }

Requests ==
    {[repo_url |-> u, local_path |-> Absent] : u \in UrlInputs \cup {Absent}}
      \cup {[repo_url |-> Absent, local_path |-> p] : p \in PathInputs}
      \cup {[repo_url |-> u, local_path |-> p] :
              u \in {<<"https://", "github.com", "/", "o", "/", "r">>, <<" ">>},
              p \in {<<"/", "a">>, <<"a">>}}

BadRequest == "400"      \* routes.py:92-95

\* What the pool makes of an accepted request: a repo_url, or a local_path
\* that is, or is not, a directory on the server's disk.
SourcesOf(req) ==
    IF req.repo_url # Absent THEN {"repo_url"} ELSE {"local_dir", "local_missing"}

\* uuid.uuid4(): an id that no job has.
FreshIds == {id \in JobIds : jobs[id] = 0 /\ \A k \in 1..(id - 1) : jobs[k] # 0}

\* routes.py:80-121   create_job
CreateJob(body) ==
    LET req == JobRequest(body)
    IN  IF ~req.ok
        THEN /\ Returned(BadRequest)
             /\ UNCHANGED <<executor, records, jobs, queue, worker, waiting>>
        ELSE \E id \in FreshIds, source \in SourcesOf(req) : Submit(id, source)

\* ---------------------------------------------------------------- system
\* The pool driven through its own API, with no reader.
Next ==
    \/ Start /\ UNCHANGED <<readers, counter>>
    \/ \E wait \in BOOLEAN : Shutdown(wait) /\ UNCHANGED <<readers, counter>>
    \/ ShutdownReturn /\ UNCHANGED <<readers, counter>>
    \/ \E id \in JobIds, source \in SourceKinds : Submit(id, source) /\ UNCHANGED <<readers, counter>>
    \/ \E w \in Workers : Take(w) /\ UNCHANGED <<readers, counter>>
    \/ \E w \in Workers : RunSetProcessing(w) /\ UNCHANGED <<readers, counter>>
    \/ \E w \in Workers : RunSetStarted(w) /\ UNCHANGED <<readers, counter>>
    \/ \E w \in Workers : RunResolve(w) /\ UNCHANGED <<readers, counter>>
    \/ \E w \in Workers : RunLoc(w) /\ UNCHANGED <<readers, counter>>
    \/ \E w \in Workers : RunInflux(w) /\ UNCHANGED <<readers, counter>>
    \/ \E w \in Workers : RunInfluxFailed(w) /\ UNCHANGED <<readers, counter>>
    \/ \E w \in Workers : RunSetResult(w) /\ UNCHANGED <<readers, counter>>
    \/ \E w \in Workers : RunChurn(w) /\ UNCHANGED <<readers, counter>>
    \/ \E w \in Workers : RunSetChurn(w) /\ UNCHANGED <<readers, counter>>
    \/ \E w \in Workers : RunSetCompleted(w) /\ UNCHANGED <<readers, counter>>
    \/ \E w \in Workers : RunSetFailed(w) /\ UNCHANGED <<readers, counter>>
    \/ \E w \in Workers : RunSetError(w) /\ UNCHANGED <<readers, counter>>
    \/ \E w \in Workers : RunSetCompletedAt(w) /\ UNCHANGED <<readers, counter>>
    \/ \E w \in Workers : RunCleanup(w) /\ UNCHANGED <<readers, counter>>

Spec == Init /\ [][Next]_vars

\* Worker threads are scheduled by the operating system and every
\* collaborator call returns or raises: no worker step waits for ever.
LiveSpec ==
    Spec /\ \A w \in Workers : /\ WF_vars(Take(w) /\ UNCHANGED <<readers, counter>>)
                              /\ WF_vars(RunJob(w) /\ UNCHANGED <<readers, counter>>)

\* The calls of the pool's lifecycle and submit, made from any thread.
ApiCall ==
    \/ Start
    \/ \E wait \in BOOLEAN : Shutdown(wait)
    \/ ShutdownReturn
    \/ \E id \in JobIds, source \in SourceKinds : Submit(id, source)

\* The pool with a caller that polls list_jobs.
NextList ==
    \/ ApiCall /\ UNCHANGED <<readers, counter>>
    \/ \E w \in Workers : Take(w) /\ UNCHANGED <<readers, counter>>
    \/ \E w \in Workers : RunJob(w) /\ UNCHANGED <<readers, counter>>
    \/ ListJobs /\ UNCHANGED counter

ListSpec == Init /\ [][NextList]_vars

\* The pool with a caller that polls health().  A submit that has to insert
\* waits for the lock while health() holds it.
NextHealth ==
    \/ Start /\ UNCHANGED <<readers, counter>>
    \/ \E wait \in BOOLEAN : Shutdown(wait) /\ UNCHANGED <<readers, counter>>
    \/ ShutdownReturn /\ UNCHANGED <<readers, counter>>
    \/ \E id \in JobIds, source \in SourceKinds :
          /\ PoolNotRunning(executor) \/ ~HealthHoldsLock
          /\ Submit(id, source)
          /\ UNCHANGED <<readers, counter>>
    \/ \E w \in Workers : Take(w) /\ UNCHANGED <<readers, counter>>
    \/ \E w \in Workers : RunJob(w) /\ UNCHANGED <<readers, counter>>
    \/ HealthQueued /\ UNCHANGED counter
    \/ HealthProcessing /\ UNCHANGED counter
    \/ HealthCompleted /\ UNCHANGED counter
    \/ HealthFailed /\ UNCHANGED counter
    \/ HealthReturn /\ UNCHANGED counter

HealthSpec == Init /\ [][NextHealth]_vars

\* The pool behind the HTTP API: jobs come in through POST /jobs only.
NextApi ==
    \/ Start /\ UNCHANGED <<readers, counter>>
    \/ \E wait \in BOOLEAN : Shutdown(wait) /\ UNCHANGED <<readers, counter>>
    \/ ShutdownReturn /\ UNCHANGED <<readers, counter>>
    \/ \E body \in Requests : CreateJob(body) /\ UNCHANGED <<readers, counter>>
    \/ \E w \in Workers : Take(w) /\ UNCHANGED <<readers, counter>>
    \/ \E w \in Workers : RunJob(w) /\ UNCHANGED <<readers, counter>>

ApiSpec == Init /\ [][NextApi]_vars

\* The pool with submit in its two steps.  One thread makes the calls of
\* the API, one after the other; the worker threads run beside it.
NextOwner ==
    \/ lastCall # "L90" /\ Start /\ UNCHANGED <<readers, counter>>
    \/ \E wait \in BOOLEAN :
          lastCall # "L90" /\ Shutdown(wait) /\ UNCHANGED <<readers, counter>>
    \/ lastCall # "L90" /\ ShutdownReturn /\ UNCHANGED <<readers, counter>>
    \/ \E id \in JobIds, source \in SourceKinds :
          lastCall # "L90" /\ SubmitEnqueue(id, source) /\ UNCHANGED <<readers, counter>>
    \/ SubmitSetFuture /\ UNCHANGED <<readers, counter>>
    \/ \E w \in Workers : Take(w) /\ UNCHANGED <<readers, counter>>
    \/ \E w \in Workers : RunJob(w) /\ UNCHANGED <<readers, counter>>

OwnerSpec == Init /\ [][NextOwner]_vars

\* ---------------------------------------------------------------- LOC of one file
\* src/src/metrics/loc.py.  A line is the sequence of its characters: " " is
\* any whitespace character, "{" either brace, "x" any character that none
\* of the patterns of loc.py mentions.  A float that is a multiple of 0.5
\* is the integer number of its halves.
MaxLineLen == 3        \* characters in a line
MaxLines   == 2        \* lines in a file content
MaxTokens  == 2        \* delimiters and other characters in a longer line

\* The lines of up to MaxLineLen of the characters that the classifier of
\* the language tells apart, and the longer lines that up to MaxTokens of
\* its delimiters and the other characters make.
LinesOf(language) ==
    LET chars == IF language = "python" THEN {" ", "{", "x", "#", "\"", "'"}
                 ELSE {" ", "{", "x", "/", "*"}
        tokens == IF language = "python"
                  THEN {<<"\"", "\"", "\"">>, <<"'", "'", "'">>, <<"x">>, <<" ">>, <<"#">>}
                  ELSE {<<"/", "*">>, <<"*", "/">>, <<"/", "/">>, <<"x">>, <<" ">>}
        made[k \in 0..MaxTokens] ==
            IF k = 0 THEN {<<>>}
            ELSE made[k - 1] \cup {l \o t : l \in made[k - 1], t \in tokens}
    IN  UNION {[1..k -> chars] : k \in 0..MaxLineLen} \cup made[MaxTokens]

\* loc.py:28-29
CODE_WEIGHT    == 2     \* 1.0
COMMENT_WEIGHT == 1     \* 0.5

\* (variant: comment lines weighted like code lines)
calculate_weighted_loc_flat(code_lines, comment_lines) ==
    (code_lines * CODE_WEIGHT) + (comment_lines * CODE_WEIGHT)
\* loc.py:77-87
calculate_weighted_loc(code_lines, comment_lines) ==
    (code_lines * CODE_WEIGHT) + (comment_lines * COMMENT_WEIGHT)

\* s.index(pat), counted from 1; 0 when "pat in s" (pattern.search(s) for a
\* literal pattern) is false
index(s, pat) ==
    LET at == {k \in 1..(Len(s) - Len(pat) + 1) : SubSeq(s, k, k + Len(pat) - 1) = pat}
    IN  IF at = {} THEN 0 ELSE CHOOSE k \in at : \A j \in at : k <= j

\* s[:s.index(pat)]
before(s, pat) == SubSeq(s, 1, index(s, pat) - 1)

\* s[s.index(pat) + len(pat):]
after(s, pat) == SubSeq(s, index(s, pat) + Len(pat), Len(s))

\* loc.py:12   ^\s*[{}]?\s*$
_SKIP_LINE_RE(s) ==
    /\ \A k \in DOMAIN s : s[k] \in {" ", "{"}
    /\ Cardinality({k \in DOMAIN s : s[k] = "{"}) <= 1

\* loc.py:16   ^\s*//
_SINGLE_LINE_COMMENT_RE(s) ==
    LET t == lstrip(s) IN Len(t) >= 2 /\ t[1] = "/" /\ t[2] = "/"

\* loc.py:17   .+//
_INLINE_COMMENT_RE(s) == \E k \in 2..(Len(s) - 1) : s[k] = "/" /\ s[k + 1] = "/"

_ML_OPEN  == <<"/", "*">>       \* loc.py:18
_ML_CLOSE == <<"*", "/">>       \* loc.py:19

\* loc.py:23   ^\s*#
_PY_SINGLE_COMMENT_RE(s) == LET t == lstrip(s) IN t # <<>> /\ t[1] = "#"

\* loc.py:24   .+#
_PY_INLINE_COMMENT_RE(s) == \E k \in 2..Len(s) : s[k] = "#"

\* loc.py:180   ('"""', "'''")
DocQuotes == << <<"\"", "\"", "\"">>, <<"'", "'", "'">> >>

\* (variant: a brace-only line is not told apart from a code line)
_should_skip_line_blank_only(line) ==
    IF \A k \in DOMAIN line : line[k] = " " THEN "blank" ELSE "code"
\* loc.py:95-101   the reason _should_skip_line gives ("code": do not skip)
_should_skip_line(line) ==
    IF \A k \in DOMAIN line : line[k] = " " THEN "blank"
    ELSE IF _SKIP_LINE_RE(line) THEN "excluded"
    ELSE "code"

\* bool(t.strip()) and not _SKIP_LINE_RE.match(t.strip())
has_code(t) == strip(t) # <<>> /\ ~_SKIP_LINE_RE(strip(t))

\* (variant: the line that closes a block comment is a comment line whatever
\* follows the */)
_classify_line_c_style_close_comment(stripped, in_block) ==
    IF in_block
    THEN IF index(stripped, <<"*", "/">>) # 0 THEN <<"comment", FALSE>>
         ELSE <<"comment", TRUE>>
    ELSE IF _SINGLE_LINE_COMMENT_RE(stripped) THEN <<"comment", FALSE>>
    ELSE IF index(stripped, <<"/", "*">>) # 0
    THEN IF index(after(stripped, <<"/", "*">>), <<"*", "/">>) # 0
         THEN <<"mixed", FALSE>> ELSE <<"comment", TRUE>>
    ELSE <<"code", FALSE>>
\* loc.py:112-155   returns (kind, still_in_block)
_classify_line_c_style(stripped, in_block) ==
    IF in_block
    THEN IF index(stripped, _ML_CLOSE) # 0
         THEN IF has_code(after(stripped, _ML_CLOSE))
              THEN <<"mixed", FALSE>>
              ELSE <<"comment", FALSE>>
         ELSE <<"comment", TRUE>>
    ELSE IF _SINGLE_LINE_COMMENT_RE(stripped)
    THEN <<"comment", FALSE>>
    ELSE IF index(stripped, _ML_OPEN) # 0
    THEN LET has_code_before == has_code(before(stripped, _ML_OPEN))
         IN  IF index(after(stripped, _ML_OPEN), _ML_CLOSE) # 0
             THEN LET has_code_after == has_code(after(stripped, _ML_CLOSE))
                  IN  IF has_code_before \/ has_code_after
                      THEN <<"mixed", FALSE>>
                      ELSE <<"comment", FALSE>>
             ELSE IF has_code_before
                  THEN <<"mixed", TRUE>>
                  ELSE <<"comment", TRUE>>
    ELSE IF _INLINE_COMMENT_RE(stripped)
    THEN <<"mixed", FALSE>>
    ELSE <<"code", FALSE>>

\* loc.py:207   re.sub(r'(["\'])(?:(?!\1).)*\1', '', code_part): every quote
\* character that has a later occurrence of itself is removed together with
\* the text up to the nearest one, from left to right.
RECURSIVE sub_string_literals(_)
sub_string_literals(s) ==
    IF s = <<>> THEN <<>>
    ELSE IF Head(s) \in {"\"", "'"} /\ \E k \in 2..Len(s) : s[k] = Head(s)
    THEN LET j == CHOOSE k \in 2..Len(s) :
                      s[k] = Head(s) /\ \A m \in 2..(k - 1) : s[m] # Head(s)
         IN  sub_string_literals(SubSeq(s, j + 1, Len(s)))
    ELSE <<Head(s)>> \o sub_string_literals(Tail(s))

\* loc.py:181-200   the body of "if quote in stripped:"
docstring_opening(stripped, quote) ==
    LET has_code_before == has_code(before(stripped, quote))
        rest == after(stripped, quote)
    IN  IF index(rest, quote) # 0
        THEN LET has_code_after == has_code(after(rest, quote))
             IN  IF has_code_before \/ has_code_after
                 THEN <<"mixed", FALSE, <<>> >>
                 ELSE <<"comment", FALSE, <<>> >>
        ELSE IF has_code_before
             THEN <<"mixed", TRUE, quote>>
             ELSE <<"comment", TRUE, quote>>

\* loc.py:158-211   returns (kind, still_in_docstring, quote_char); <<>> is ""
_classify_line_python(stripped, in_docstring, docstring_quote) ==
    IF in_docstring
    THEN IF index(stripped, docstring_quote) # 0
         THEN IF has_code(after(stripped, docstring_quote))
              THEN <<"mixed", FALSE, <<>> >>
              ELSE <<"comment", FALSE, <<>> >>
         ELSE <<"comment", TRUE, docstring_quote>>
    ELSE IF _PY_SINGLE_COMMENT_RE(stripped)
    THEN <<"comment", FALSE, <<>> >>
    ELSE IF index(stripped, DocQuotes[1]) # 0
    THEN docstring_opening(stripped, DocQuotes[1])
    ELSE IF index(stripped, DocQuotes[2]) # 0
    THEN docstring_opening(stripped, DocQuotes[2])
    ELSE IF /\ _PY_INLINE_COMMENT_RE(stripped)
            /\ index(sub_string_literals(stripped), <<"#">>) # 0
    THEN <<"mixed", FALSE, <<>> >>
    ELSE <<"code", FALSE, <<>> >>

\* (variant: the comment state is kept between calls, so that a call may
\* start inside the block comment or docstring that the file before left open)
FileLOC_carried(language, n) ==
    [ language |-> language, total_lines |-> n,
      loc |-> 0, blank_lines |-> 0, excluded_lines |-> 0, comment_lines |-> 0,
      weighted_loc |-> 0,
      in_block |-> language # "python", in_docstring |-> language = "python",
      docstring_quote |-> IF language = "python" THEN DocQuotes[1] ELSE <<>>,
      reason |-> "none", kind |-> "none" ]
\* loc.py:215-225   the FileLOC and the locals of count_loc_in_content as the
\* loop starts, for a content of n lines; reason and kind are the loop's
\* locals of these names
FileLOC(language, n) ==
    [ language |-> language, total_lines |-> n,
      loc |-> 0, blank_lines |-> 0, excluded_lines |-> 0, comment_lines |-> 0,
      weighted_loc |-> 0,
      in_block |-> FALSE, in_docstring |-> FALSE, docstring_quote |-> <<>>,
      reason |-> "none", kind |-> "none" ]

\* loc.py:239-244   the classifier of the language assigns kind and the
\* state of its own dialect
classify(st, stripped) ==
    IF st.language = "python"
    THEN LET c == _classify_line_python(stripped, st.in_docstring, st.docstring_quote)
         IN  [st EXCEPT !.kind = c[1], !.in_docstring = c[2], !.docstring_quote = c[3]]
    ELSE LET c == _classify_line_c_style(stripped, st.in_block)
         IN  [st EXCEPT !.kind = c[1], !.in_block = c[2]]

\* (variant: a mixed line is counted as a line of code and as a comment line)
tally_mixed_twice(st) ==
    IF st.kind = "comment" THEN [st EXCEPT !.comment_lines = @ + 1]
    ELSE IF st.kind = "mixed" THEN [st EXCEPT !.loc = @ + 1, !.comment_lines = @ + 1]
    ELSE [st EXCEPT !.loc = @ + 1]
\* loc.py:246-253
tally(st) ==
    IF st.kind = "comment" THEN [st EXCEPT !.comment_lines = @ + 1]
    ELSE IF st.kind = "mixed" THEN [st EXCEPT !.loc = @ + 1]
    ELSE [st EXCEPT !.loc = @ + 1]

\* (variant: a blank line is passed over without being counted)
loop_body_uncounted_blank(st, line) ==
    LET reason == _should_skip_line(line)
    IN  IF reason = "blank" THEN [st EXCEPT !.reason = reason]
        ELSE IF reason = "excluded"
        THEN [st EXCEPT !.reason = reason, !.excluded_lines = @ + 1]
        ELSE tally(classify([st EXCEPT !.reason = reason], strip(line)))
\* loc.py:227-253   one iteration of "for line in lines"
loop_body(st, line) ==
    LET reason == _should_skip_line(line)
    IN  IF reason = "blank"
        THEN [st EXCEPT !.reason = reason, !.blank_lines = @ + 1]
        ELSE IF reason = "excluded"
        THEN [st EXCEPT !.reason = reason, !.excluded_lines = @ + 1]
        ELSE tally(classify([st EXCEPT !.reason = reason], strip(line)))

RECURSIVE run_loop(_, _)
run_loop(st, lines) ==
    IF lines = <<>> THEN st ELSE run_loop(loop_body(st, Head(lines)), Tail(lines))

\* loc.py:214-256 as a function of the list of lines that lines 216-219 make
\* of the content
count_loc_in_content(lines, language) ==
    LET st == run_loop(FileLOC(language, Len(lines)), lines)
    IN  [st EXCEPT !.weighted_loc = calculate_weighted_loc(st.loc, st.comment_lines)]

\* One call of count_loc_in_content(content, language), an iteration of its
\* loop at a time.  content.split("\n") without a trailing "" (lines
\* 216-219) is a list of total_lines lines; the last of them is not empty
\* when the content does not end in a newline.  The lines are drawn as the
\* loop comes to them.
ScanInit ==
    /\ executor = "none"
    /\ records = <<>>
    /\ jobs = [id \in JobIds |-> 0]
    /\ queue = <<>>
    /\ worker = [w \in Workers |-> IdleWorker]
    /\ waiting = FALSE
    /\ lastCall = NoneStr
    /\ snapshot = NoSnapshot
    /\ health = NoHealthCall
    /\ inflight = {}
    /\ \E language \in {"python", "c-style"}, n \in 0..MaxLines, final_newline \in BOOLEAN :
          /\ n = 0 => final_newline
          /\ counter = [ pc |-> "loop", pos |-> 0, final_newline |-> final_newline,
                         st |-> FileLOC(language, n) ]

ScanLine(line) ==
    /\ counter.pc = "loop"
    /\ counter.pos < counter.st.total_lines
    /\ (counter.pos + 1 = counter.st.total_lines /\ ~counter.final_newline) => line # <<>>
    /\ counter' = [counter EXCEPT !.pos = @ + 1, !.st = loop_body(@, line)]
    /\ UNCHANGED <<pool, readers>>

\* loc.py:255-256
ScanReturn ==
    /\ counter.pc = "loop"
    /\ counter.pos = counter.st.total_lines
    /\ counter' = [counter EXCEPT
                     !.pc = "done",
                     !.st.weighted_loc =
                         calculate_weighted_loc(counter.st.loc, counter.st.comment_lines)]
    /\ UNCHANGED <<pool, readers>>

\* ---------------------------------------------------------------- LOC of a directory
\* A directory is its path relative to the scanned root, a sequence of
\* names (<<>>: the root itself, rel_dir "."); a file name is the pair
\* os.path.splitext makes of it.  No name used here is the beginning of
\* another, so Python's order of the joined strings is the order of the
\* sequences, name by name.
MaxFiles == 3          \* files in a tree

\* loc.py:9
SUPPORTED_EXTENSIONS == {".java", ".py", ".ts"}

\* loc.py:276
SKIP_DIRS == {"node_modules", "__pycache__", "venv", ".venv", "build", "dist"}

\* The directories that may hold files.
FileDirs == { <<>>, <<"app">>, <<"lib">>, <<"app", "lib">>,
              <<"app", "build">>, <<".git", "lib">> }

\* These and the directories on the way to them.
AllDirs == UNION {{SubSeq(d, 1, k) : k \in 0..Len(d)} : d \in FileDirs}

\* The file names, and the directory names, each in the ascending order of
\* Python's str comparison.
FileNames == << <<"Main", ".java">>, <<"README", ".md">>, <<"TOOL", ".PY">>,
                <<"locked", ".py">>, <<"util", ".py">> >>

NameOrder == <<"(root)", ".git", "app", "build", "lib">>

\* What the files hold; the same name holds the same text in every directory.
Content(name) ==
    IF name = <<"Main", ".java">>
    THEN << <<"/", "/">>, <<"x">>, <<"x", "/", "/">>, <<"{">> >>
    ELSE IF name = <<"util", ".py">>
    THEN << <<"#">>, <<"x">>, <<>>, <<"\"", "\"", "\"">>, <<"{">>, <<"\"", "\"", "\"">> >>
    ELSE << <<"x">> >>

\* A tree is the set of its files, at most n of them; its directories are
\* those on the way to a file.
RECURSIVE TreesUpTo(_)
TreesUpTo(n) ==
    IF n = 0 THEN {{}}
    ELSE LET smaller == TreesUpTo(n - 1)
         IN  smaller \cup
             {t \cup {[dir |-> d, name |-> FileNames[k]]} :
                 t \in smaller, d \in FileDirs, k \in DOMAIN FileNames}

\* The directories of the tree that os.scandir(d) lists.
Children(tree, d) ==
    {c \in AllDirs :
        /\ Len(c) = Len(d) + 1
        /\ SubSeq(c, 1, Len(d)) = d
        /\ \E f \in tree : Len(f.dir) >= Len(c) /\ SubSeq(f.dir, 1, Len(c)) = c}

\* p.startswith(".") and p != "."
startswith_dot(p) == p \in {".git", ".venv"}

\* str.lower() of an extension
lower(ext) == IF ext = ".PY" THEN ".py" ELSE ext

\* loc.py:90-92
is_supported_file(filename) == lower(filename[2]) \in SUPPORTED_EXTENSIONS

\* loc.py:104-109
_detect_language(filename) == IF lower(filename[2]) = ".py" THEN "python" ELSE "c-style"

\* (variant: the OSError of open() is not caught apart from the other files:
\* the unreadable file comes back as a FileLOC of what it holds)
count_loc_in_file_reads_all(dir, filename) ==
    IF ~is_supported_file(filename)
    THEN [none |-> TRUE]
    ELSE LET with_path(result) ==
                 [ path |-> <<dir, filename>>,
                   total_lines |-> result.total_lines, loc |-> result.loc,
                   blank_lines |-> result.blank_lines,
                   excluded_lines |-> result.excluded_lines,
                   comment_lines |-> result.comment_lines,
                   weighted_loc |-> result.weighted_loc ]
         IN  with_path(count_loc_in_content(Content(filename), _detect_language(filename)))
\* loc.py:259-273   count_loc_in_file(os.path.join(dirpath, filename), directory);
\* open() raises OSError for the file named locked.py; [none |-> TRUE] is None
count_loc_in_file(dir, filename) ==
    IF ~is_supported_file(filename) \/ filename = <<"locked", ".py">>
    THEN [none |-> TRUE]
    ELSE LET with_path(result) ==
                 [ path |-> <<dir, filename>>,
                   total_lines |-> result.total_lines, loc |-> result.loc,
                   blank_lines |-> result.blank_lines,
                   excluded_lines |-> result.excluded_lines,
                   comment_lines |-> result.comment_lines,
                   weighted_loc |-> result.weighted_loc ]
         IN  with_path(count_loc_in_content(Content(filename), _detect_language(filename)))

\* str < str for two keys (paths joined with os.sep)
RECURSIVE KeyLess(_, _)
KeyLess(a, b) ==
    IF a = <<>> THEN b # <<>>
    ELSE IF b = <<>> THEN FALSE
    ELSE IF Head(a) = Head(b) THEN KeyLess(Tail(a), Tail(b))
    ELSE (CHOOSE k \in DOMAIN NameOrder : NameOrder[k] = Head(a))
           < (CHOOSE k \in DOMAIN NameOrder : NameOrder[k] = Head(b))

\* sorted(filenames): the names of a set in ascending order
RECURSIVE sorted_names(_)
sorted_names(S) ==
    IF S = {} THEN <<>>
    ELSE LET first == CHOOSE k \in DOMAIN FileNames :
                          /\ FileNames[k] \in S
                          /\ \A j \in 1..(k - 1) : FileNames[j] \notin S
         IN  <<FileNames[first]>> \o sorted_names(S \ {FileNames[first]})

\* (variant: the records are left in the order the dict holds them, the
\* order of insertion)
sorted_by_key_unsorted(recs) == recs
\* sorted(map.values(), key=lambda r: r.key): a stable insertion sort of
\* the records of a dict, which come in the order of insertion
RECURSIVE sorted_by_key(_)
sorted_by_key(recs) ==
    IF recs = <<>> THEN <<>>
    ELSE LET rest == sorted_by_key(SubSeq(recs, 1, Len(recs) - 1))
             r == recs[Len(recs)]
             n == Cardinality({k \in DOMAIN rest : ~KeyLess(r.key, rest[k].key)})
         IN  SubSeq(rest, 1, n) \o <<r>> \o SubSeq(rest, n + 1, Len(rest))

\* loc.py:280
ProjectLOC ==
    [ total_loc |-> 0, total_files |-> 0, total_blank_lines |-> 0,
      total_excluded_lines |-> 0, total_comment_lines |-> 0,
      total_weighted_loc |-> 0,
      packages |-> <<>>, modules |-> <<>>, files |-> <<>> ]

\* loc.py:310   PackageLOC(package=pkg_key)
PackageLOC(pkg_key) ==
    [ key |-> pkg_key, loc |-> 0, file_count |-> 0, comment_lines |-> 0,
      weighted_loc |-> 0, files |-> <<>> ]

\* loc.py:325   ModuleLOC(module=module_key)
ModuleLOC(module_key) ==
    [ key |-> module_key, loc |-> 0, package_count |-> 0, file_count |-> 0,
      comment_lines |-> 0, packages |-> <<>> ]

\* loc.py:308
pkg_key_of(rel_dir) == IF rel_dir # <<>> THEN rel_dir ELSE <<"(root)">>

\* loc.py:318-322
module_key_of(rel_dir) == IF rel_dir = <<>> THEN <<"(root)">> ELSE <<rel_dir[1]>>

\* "if key not in map: map[key] = fresh" on a dict, which is kept as the
\* sequence of its values in insertion order
setdefault(map, fresh) ==
    IF \E k \in DOMAIN map : map[k].key = fresh.key THEN map ELSE Append(map, fresh)

\* (variant: the skipped names are looked for in the directory's own name
\* only, not in the names above it)
skipped_last_only(rel_dir) ==
    /\ rel_dir # <<>>
    /\ startswith_dot(rel_dir[Len(rel_dir)]) \/ rel_dir[Len(rel_dir)] \in SKIP_DIRS
\* loc.py:285-289
skipped(rel_dir) ==
    \E k \in DOMAIN rel_dir : startswith_dot(rel_dir[k]) \/ rel_dir[k] \in SKIP_DIRS

\* (variant: a file is added to the project's totals but not to its module)
add_file_no_module(w, rel_dir, filename) ==
    LET add(file_loc, pmap, mmap) ==
            LET p == CHOOSE k \in DOMAIN pmap : pmap[k].key = pkg_key_of(rel_dir)
            IN  [w EXCEPT
                !.project.files = Append(@, file_loc),
                !.project.total_loc = @ + file_loc.loc,
                !.project.total_files = @ + 1,
                !.project.total_blank_lines = @ + file_loc.blank_lines,
                !.project.total_excluded_lines = @ + file_loc.excluded_lines,
                !.project.total_comment_lines = @ + file_loc.comment_lines,
                !.project.total_weighted_loc = @ + file_loc.weighted_loc,
                !.package_map =
                    [pmap EXCEPT ![p].loc = @ + file_loc.loc,
                                 ![p].file_count = @ + 1,
                                 ![p].comment_lines = @ + file_loc.comment_lines,
                                 ![p].weighted_loc = @ + file_loc.weighted_loc,
                                 ![p].files = Append(@, file_loc)],
                !.module_map = mmap]
        counted(file_loc) ==
            IF file_loc = [none |-> TRUE] THEN w
            ELSE add(file_loc,
                     setdefault(w.package_map, PackageLOC(pkg_key_of(rel_dir))),
                     setdefault(w.module_map, ModuleLOC(module_key_of(rel_dir))))
    IN  counted(count_loc_in_file(rel_dir, filename))
\* loc.py:292-328   the body of "for filename in sorted(filenames)"; add is
\* lines 300-328 with the two dicts after lines 309-310 and 324-325
add_file(w, rel_dir, filename) ==
    LET add(file_loc, pmap, mmap) ==
            LET p == CHOOSE k \in DOMAIN pmap : pmap[k].key = pkg_key_of(rel_dir)
                m == CHOOSE k \in DOMAIN mmap : mmap[k].key = module_key_of(rel_dir)
            IN  [w EXCEPT
                !.project.files = Append(@, file_loc),
                !.project.total_loc = @ + file_loc.loc,
                !.project.total_files = @ + 1,
                !.project.total_blank_lines = @ + file_loc.blank_lines,
                !.project.total_excluded_lines = @ + file_loc.excluded_lines,
                !.project.total_comment_lines = @ + file_loc.comment_lines,
                !.project.total_weighted_loc = @ + file_loc.weighted_loc,
                !.package_map =
                    [pmap EXCEPT ![p].loc = @ + file_loc.loc,
                                 ![p].file_count = @ + 1,
                                 ![p].comment_lines = @ + file_loc.comment_lines,
                                 ![p].weighted_loc = @ + file_loc.weighted_loc,
                                 ![p].files = Append(@, file_loc)],
                !.module_map =
                    [mmap EXCEPT ![m].loc = @ + file_loc.loc,
                                 ![m].file_count = @ + 1,
                                 ![m].comment_lines = @ + file_loc.comment_lines]]
        counted(file_loc) ==
            IF file_loc = [none |-> TRUE] THEN w
            ELSE add(file_loc,
                     setdefault(w.package_map, PackageLOC(pkg_key_of(rel_dir))),
                     setdefault(w.module_map, ModuleLOC(module_key_of(rel_dir))))
    IN  counted(count_loc_in_file(rel_dir, filename))

\* loc.py:291   for filename in sorted(filenames)
RECURSIVE add_files(_, _, _)
add_files(w, rel_dir, filenames) ==
    IF filenames = <<>> THEN w
    ELSE add_files(add_file(w, rel_dir, Head(filenames)), rel_dir, Tail(filenames))

\* (variant: every package is put into the list of the first module)
link_packages_to_first(mmap, packages) ==
    [k \in DOMAIN mmap |->
        IF k = 1 THEN [mmap[k] EXCEPT !.packages = packages] ELSE mmap[k]]
\* loc.py:332-344   the packages, in their sorted order, appended to their modules
RECURSIVE link_packages(_, _)
link_packages(mmap, packages) ==
    IF packages = <<>> THEN mmap
    ELSE LET pkg == Head(packages)
             mod == IF pkg.key = <<"(root)">> THEN <<"(root)">> ELSE <<pkg.key[1]>>
         IN  link_packages(
                 [k \in DOMAIN mmap |->
                     IF mmap[k].key = mod
                     THEN [mmap[k] EXCEPT !.packages = Append(@, pkg)]
                     ELSE mmap[k]],
                 Tail(packages))

\* loc.py:330-346
finish_project(w) ==
    LET packages == sorted_by_key(w.package_map)
    IN  [w.project EXCEPT
           !.packages = packages,
           !.modules = sorted_by_key(link_packages(w.module_map, packages))]

\* One call of count_loc_in_directory.  os.walk goes through the tree top
\* down, a directory before the directories in it, and takes the
\* directories of one parent in the order os.scandir gives them, which is
\* the file system's: todo is the stack of the sets of directories that
\* are still to come, innermost first.  run and first belong to the caller:
\* which of its calls this is, and what the call before returned.
NewWalk(tree, run, first) ==
    [ pc |-> "walk", tree |-> tree, run |-> run, first |-> first,
      todo |-> << {<<>>} >>,
      project |-> ProjectLOC, package_map |-> <<>>, module_map |-> <<>> ]

WalkInit ==
    /\ executor = "none"
    /\ records = <<>>
    /\ jobs = [id \in JobIds |-> 0]
    /\ queue = <<>>
    /\ worker = [w \in Workers |-> IdleWorker]
    /\ waiting = FALSE
    /\ lastCall = NoneStr
    /\ snapshot = NoSnapshot
    /\ health = NoHealthCall
    /\ inflight = {}
    /\ \E tree \in TreesUpTo(MaxFiles) : counter = NewWalk(tree, 1, NoneStr)

\* loc.py:284-328   one iteration of "for dirpath, _, filenames in os.walk"
WalkDir(rel_dir) ==
    /\ counter.pc = "walk"
    /\ counter.todo # <<>>
    /\ rel_dir \in Head(counter.todo)
    /\ LET filenames == {f.name : f \in {g \in counter.tree : g.dir = rel_dir}}
           w == IF skipped(rel_dir) THEN counter
                ELSE add_files(counter, rel_dir, sorted_names(filenames))
           rest == IF Head(counter.todo) = {rel_dir} THEN Tail(counter.todo)
                   ELSE <<Head(counter.todo) \ {rel_dir}>> \o Tail(counter.todo)
       IN  counter' = [w EXCEPT !.todo =
                          IF Children(counter.tree, rel_dir) = {} THEN rest
                          ELSE <<Children(counter.tree, rel_dir)>> \o rest]
    /\ UNCHANGED <<pool, readers>>

WalkReturn ==
    /\ counter.pc = "walk"
    /\ counter.todo = <<>>
    /\ counter' = [counter EXCEPT !.pc = "returned", !.project = finish_project(counter)]
    /\ UNCHANGED <<pool, readers>>

\* The caller scans the same unchanged tree a second time and keeps the
\* first ProjectLOC.
WalkAgain ==
    /\ counter.pc = "returned"
    /\ counter.run = 1
    /\ counter' = NewWalk(counter.tree, 2, counter.project)
    /\ UNCHANGED <<pool, readers>>

NextWalk ==
    \/ \E rel_dir \in AllDirs : WalkDir(rel_dir)
    \/ WalkReturn
    \/ WalkAgain

WalkSpec == WalkInit /\ [][NextWalk]_vars

\* A call of either counter, on its own input.
NextLoc ==
    \/ counter.pc = "loop" /\ \E line \in LinesOf(counter.st.language) : ScanLine(line)
    \/ ScanReturn
    \/ \E rel_dir \in AllDirs : WalkDir(rel_dir)
    \/ WalkReturn

LocSpec == (ScanInit \/ WalkInit) /\ [][NextLoc]_vars

\* ---------------------------------------------------------------- churn
\* src/src/metrics/churn.py.  The text that git prints is a list of lines, a
\* line the list of the fields between its tabs, a field the sequence of
\* its characters: "-" and the digit "1".
MaxCommits   == 2      \* commits that get_commit_history returns
MaxStatLines == 1      \* lines of one commit's numstat output

\* int(s): a sign, then digits; ValueError (ok is FALSE) for anything else
int(s) ==
    LET digits == IF s # <<>> /\ s[1] = "-" THEN Tail(s) ELSE s
        val == ((10 ^ Len(digits)) - 1) \div 9
    IN  IF digits = <<>> \/ \E k \in DOMAIN digits : digits[k] # "1"
        THEN [ok |-> FALSE, val |-> 0]
        ELSE [ok |-> TRUE, val |-> IF s[1] = "-" THEN 0 - val ELSE val]

\* churn.py:95-119   one iteration of the loop of _parse_numstat
_parse_numstat_line(acc, parts) ==
    IF Len(parts) < 3 THEN acc
    ELSE IF parts[1] = <<"-">> \/ parts[2] = <<"-">> THEN acc
    ELSE IF ~int(parts[1]).ok \/ ~int(parts[2]).ok THEN acc
    ELSE IF int(parts[1]).val < 0 \/ int(parts[2]).val < 0 THEN acc
    ELSE [added |-> acc.added + int(parts[1]).val,
          deleted |-> acc.deleted + int(parts[2]).val]

\* (variant: modified is the larger of the two counts)
churn_dict_max(added, deleted) ==
    [ added |-> added, deleted |-> deleted,
      modified |-> IF added > deleted THEN added ELSE deleted,
      total |-> added + deleted ]
\* churn.py:62-67, 18-23   the dict that is returned
churn_dict(added, deleted) ==
    [ added |-> added, deleted |-> deleted,
      modified |-> IF added < deleted THEN added ELSE deleted,
      total |-> added + deleted ]

\* churn.py:38-42   daily is a dict, kept as the sequence of its items in
\* insertion order
daily_add(daily, day, churn) ==
    LET d == IF \E k \in DOMAIN daily : daily[k].day = day THEN daily
             ELSE Append(daily, [day |-> day, added |-> 0, deleted |-> 0,
                                 modified |-> 0, total |-> 0])
    IN  [k \in DOMAIN d |->
            IF d[k].day = day
            THEN [d[k] EXCEPT !.added = @ + churn.added, !.deleted = @ + churn.deleted]
            ELSE d[k]]

\* One call of compute_repo_churn or of compute_daily_churn (fn) on a
\* repository for which get_commit_history has returned a list of left
\* commits.  The commits' dates and the numstat text of each commit are
\* drawn as the loop comes to them.  churn is the caller's local of this
\* name; it is taken to be unset while the next call of
\* compute_commit_churn is under way, which assigns it before it is read.
ChurnInit ==
    /\ executor = "none"
    /\ records = <<>>
    /\ jobs = [id \in JobIds |-> 0]
    /\ queue = <<>>
    /\ worker = [w \in Workers |-> IdleWorker]
    /\ waiting = FALSE
    /\ lastCall = NoneStr
    /\ snapshot = NoSnapshot
    /\ health = NoHealthCall
    /\ inflight = {}
    /\ \E fn \in {"compute_repo_churn", "compute_daily_churn"}, n \in 0..MaxCommits :
          counter = [ pc |-> "commits", fn |-> fn, left |-> n, commits |-> 0,
                      total_added |-> 0, total_deleted |-> 0, daily |-> <<>>,
                      day |-> NoneStr, lines |-> 0,
                      parsed |-> [added |-> 0, deleted |-> 0],
                      churn |-> churn_dict(0, 0), result |-> <<>> ]

\* churn.py:13-14, 34-36, 51-60, 92-93   the loop takes the next commit and
\* calls compute_commit_churn, whose git show prints n lines
ChurnShow(day, n) ==
    /\ counter.pc = "commits"
    /\ counter.left > 0
    /\ counter' = [counter EXCEPT !.pc = "parse", !.day = day, !.lines = n,
                                  !.parsed = [added |-> 0, deleted |-> 0],
                                  !.churn = churn_dict(0, 0)]
    /\ UNCHANGED <<pool, readers>>

\* churn.py:52-56, 85-86   compute_commit_churn raises ValueError, which
\* neither caller catches
ChurnRaise ==
    /\ counter.pc = "commits"
    /\ counter.left > 0
    /\ counter' = [counter EXCEPT !.pc = "raised"]
    /\ UNCHANGED <<pool, readers>>

\* churn.py:95-119
ChurnLine(parts) ==
    /\ counter.pc = "parse"
    /\ counter.lines > 0
    /\ counter' = [counter EXCEPT !.lines = @ - 1,
                                  !.parsed = _parse_numstat_line(@, parts)]
    /\ UNCHANGED <<pool, readers>>

\* churn.py:121, 60-67, then 14-16 or 36-42
ChurnCommit ==
    /\ counter.pc = "parse"
    /\ counter.lines = 0
    /\ LET churn == churn_dict(counter.parsed.added, counter.parsed.deleted)
       IN  counter' =
             IF counter.fn = "compute_repo_churn"
             THEN [counter EXCEPT !.pc = "commits", !.left = @ - 1, !.commits = @ + 1,
                                  !.churn = churn,
                                  !.total_added = @ + churn.added,
                                  !.total_deleted = @ + churn.deleted]
             ELSE [counter EXCEPT !.pc = "commits", !.left = @ - 1, !.commits = @ + 1,
                                  !.churn = churn,
                                  !.daily = daily_add(@, counter.day, churn)]
    /\ UNCHANGED <<pool, readers>>

\* churn.py:18-23, 29-30, 44-48
ChurnReturn ==
    /\ counter.pc = "commits"
    /\ counter.left = 0
    /\ counter' = [counter EXCEPT
                     !.pc = "returned",
                     !.result = IF counter.fn = "compute_repo_churn"
                                THEN churn_dict(counter.total_added, counter.total_deleted)
                                ELSE [k \in DOMAIN counter.daily |->
                                        [counter.daily[k] EXCEPT
                                           !.modified =
                                               IF counter.daily[k].added < counter.daily[k].deleted
                                               THEN counter.daily[k].added
                                               ELSE counter.daily[k].deleted,
                                           !.total = counter.daily[k].added
                                                       + counter.daily[k].deleted]]]
    /\ UNCHANGED <<pool, readers>>

\* The commits are of two dates.  A line of numstat output holds the added
\* and the deleted count and the path, or fewer fields.
NextChurn ==
    \/ \E day \in {"2026-03-10", "2026-03-11"}, n \in 0..MaxStatLines : ChurnShow(day, n)
    \/ ChurnRaise
    \/ \E parts \in {<<>>, << <<"1">> >>, << <<"1">>, <<"1">> >>}
                      \cup {<<a_str, d_str, <<"f">> >> :
                               a_str \in UNION {[1..k -> {"-", "1"}] : k \in 1..2},
                               d_str \in UNION {[1..k -> {"-", "1"}] : k \in 1..2}} :
          ChurnLine(parts)
    \/ ChurnCommit
    \/ ChurnReturn

ChurnSpec == ChurnInit /\ [][NextChurn]_vars

\* ---------------------------------------------------------------- properties
Stored == 1..Len(records)

Terminal == {"completed", "failed"}

Processing == {i \in Stored : records[i].status = "processing"}

\* The worker thread that is executing record i, if any.
Runner(i) == {w \in Workers : worker[w].pc # "idle" /\ worker[w].rec = i}

\* C1: a JobRecord's status only changes queued -> processing,
\* processing -> completed or processing -> failed; a completed or failed
\* status never changes again, and no record disappears.
C1_StatusSteps ==
    [][ /\ Len(records') >= Len(records)
        /\ \A i \in Stored :
             records'[i].status # records[i].status =>
               <<records[i].status, records'[i].status>> \in
                 { <<"queued", "processing">>,
                   <<"processing", "completed">>,
                   <<"processing", "failed">> } ]_vars

C1_Witness ==
    \E i, j \in Stored :
        /\ records[i].status = "completed"
        /\ records[j].status = "failed"
        /\ Runner(i) = {} /\ Runner(j) = {}

C3_AcceptedJobsFinish ==
    \A i \in 1..MaxJobs :
        (i <= Len(records) /\ records[i].future)
            ~> (i <= Len(records) /\ records[i].status \in Terminal)

C3_Witness ==
    /\ Len(records) > PoolSize
    /\ \A i \in Stored : records[i].future /\ records[i].status \in Terminal

\* C4: when clone or the LOC scan raises, the handler marks the job failed
\* and stores the exception's message in error; no job is left in status
\* processing without a worker that is still executing it.
C4_RaiseMeansFailed ==
    /\ \A w \in Workers :
         worker[w].exc \in (CloneErrors \cup LocErrors) =>
           LET r == records[worker[w].rec]
           IN  \/ worker[w].pc = "L227" /\ r.status = "processing"
               \/ worker[w].pc = "L228" /\ r.status = "failed"
               \/ /\ worker[w].pc \in {"L231", "L232"}
                  /\ r.status = "failed"
                  /\ r.error = worker[w].exc
    /\ \A i \in Processing : Runner(i) # {}

C4_Witness ==
    \E w \in Workers :
        /\ worker[w].pc = "L232"
        /\ worker[w].exc \in (CloneErrors \cup LocErrors)
        /\ records[worker[w].rec].status = "failed"
        /\ records[worker[w].rec].error = worker[w].exc

\* C5: a completed job has a result and no error, a failed job has an error
\* and no result, in every state.
C5_ResultXorError ==
    \A i \in Stored :
        /\ records[i].status = "completed" =>
             records[i].result # NoResult /\ records[i].error = NoneStr
        /\ records[i].status = "failed" =>
             records[i].error # NoneStr /\ records[i].result = NoResult

\* C6 as stated: a job whose status is queued or processing has no result.
C6_NoResultBeforeCompleted ==
    \A i \in Stored :
        records[i].status \in {"queued", "processing"} => records[i].result = NoResult

\* C6 amended: a queued job and a failed job have no result; a processing
\* job has a result only once its worker is past the LOC scan and the
\* metric writes, on the path whose next status is completed.
C6_ResultOnlyOnSuccessPath ==
    \A i \in Stored :
        /\ records[i].status \in {"queued", "failed"} => records[i].result = NoResult
        /\ (records[i].status = "processing" /\ records[i].result # NoResult) =>
             \E w \in Runner(i) : worker[w].pc \in {"L217", "L218", "L221", "L223"}

C6_Witness ==
    \E i \in Stored :
        /\ records[i].status = "processing"
        /\ records[i].result # NoResult
        /\ records[i].result.churn # NoChurn

\* C7: a job seen with status completed or failed has a completed_at, and
\* it is not earlier than started_at.
C7_TerminalHasCompletedAt ==
    \A i \in Stored :
        records[i].status \in Terminal =>
            /\ records[i].completed_at # NoTime
            /\ records[i].completed_at >= records[i].started_at

\* C8: submit on a pool that was never started raises "Worker pool is not
\* running", constructs no JobRecord and leaves the job table as it was.
C8_SubmitBeforeStart ==
    [][ (executor = "none" /\ \E id \in JobIds, source \in SourceKinds : Submit(id, source)) =>
            /\ lastCall' = NotRunningMsg
            /\ records' = records
            /\ jobs' = jobs
            /\ queue' = queue ]_vars

C8_Witness ==
    /\ executor = "none"
    /\ lastCall = NotRunningMsg
    /\ records = <<>>
    /\ \A id \in JobIds : jobs[id] = 0

\* C9: submit after shutdown fails, and the failed call neither constructs
\* a JobRecord nor stores one in the job table.
C9_SubmitAfterShutdown ==
    [][ (executor = "shutdown" /\ \E id \in JobIds, source \in SourceKinds : Submit(id, source)) =>
            /\ lastCall' \in {NotRunningMsg, AfterShutdownMsg}
            /\ records' = records
            /\ jobs' = jobs ]_vars

\* C10: a job whose local_path is not on disk never becomes completed.
C10_MissingPathNeverCompletes ==
    \A i \in Stored :
        records[i].source = "local_missing" => records[i].status # "completed"

\* C11: the list that list_jobs returned reads the same in every later
\* state as it read when it was returned, whatever the workers have written
\* to the records since.
C11_SnapshotNeverChanges ==
    \A k \in DOMAIN snapshot.dicts :
        ReadDict(snapshot.dicts[k]) = snapshot.returned[k]

\* C12: what health() returns is a count of the job table at one instant:
\* the four counts by status add up to total_jobs, and active_workers is
\* processing_jobs.
C12_HealthConsistent ==
    health.pc = "done" =>
        /\ HealthResult.queued_jobs + HealthResult.processing_jobs
             + HealthResult.completed_jobs + HealthResult.failed_jobs
               = HealthResult.total_jobs
        /\ HealthResult.active_workers = HealthResult.processing_jobs

\* C13: shutdown itself changes no job record and stops no worker, and a
\* job that is processing once shutdown has been requested still reaches
\* completed or failed.
C13_ShutdownLetsJobsFinish ==
    /\ [][ (\E wait \in BOOLEAN : Shutdown(wait)) =>
              records' = records /\ worker' = worker /\ queue' = queue ]_vars
    /\ \A i \in 1..MaxJobs :
         (executor = "shutdown" /\ i <= Len(records) /\ records[i].status = "processing")
            ~> (i <= Len(records) /\ records[i].status \in Terminal)

C13_Witness ==
    /\ executor = "shutdown"
    /\ ~waiting
    /\ lastCall = NoneStr
    /\ \E i \in Processing : \E w \in Runner(i) : worker[w].pc = "L139"

\* The jobs that are queued or processing.
InFlight == {i \in Stored : records[i].status \in {"queued", "processing"}}

\* A caller of shutdown(wait=True) that notes, as it calls, which jobs are
\* in flight.
ShutdownWaiting ==
    /\ Shutdown(TRUE)
    /\ inflight' = InFlight
    /\ UNCHANGED <<snapshot, health>>

\* The pool with that caller.
NextWait ==
    \/ Start /\ UNCHANGED <<readers, counter>>
    \/ Shutdown(FALSE) /\ UNCHANGED <<readers, counter>>
    \/ ShutdownWaiting /\ UNCHANGED counter
    \/ ShutdownReturn /\ UNCHANGED <<readers, counter>>
    \/ \E id \in JobIds, source \in SourceKinds : Submit(id, source) /\ UNCHANGED <<readers, counter>>
    \/ \E w \in Workers : Take(w) /\ UNCHANGED <<readers, counter>>
    \/ \E w \in Workers : RunJob(w) /\ UNCHANGED <<readers, counter>>

WaitSpec == Init /\ [][NextWait]_vars

\* C14: when shutdown(wait=True) returns, every job that was queued or
\* processing when it was called is completed or failed.
C14_WaitedShutdownDrains ==
    [][ ShutdownReturn => \A i \in inflight : records[i].status \in Terminal ]_vars

\* C15: start() on a pool that is running changes neither the executor and
\* its work queue, nor the job table, nor a job record, nor the worker
\* threads, of which there are at most pool_size.
C15_StartIsIdempotent ==
    [][ (executor = "running" /\ Start) =>
            /\ UNCHANGED <<executor, queue, jobs, records, worker>>
            /\ Cardinality(DOMAIN worker') <= PoolSize ]_vars

\* A running pool with a job in progress and work queued; start() called
\* here returns to this very state.
C15_Witness ==
    /\ executor = "running"
    /\ lastCall = NoneStr
    /\ queue # <<>>
    /\ \E w \in Workers : worker[w].pc # "idle"
    /\ ENABLED Start

\* C16: a temp clone directory exists only while the worker that cloned it
\* is between the clone and the cleanup of its job; once the worker has
\* finished the job, on the success path or the failure path, the
\* directory is gone.
C16_CloneDirRemoved ==
    \A w \in Workers :
        worker[w].tmp =>
            /\ worker[w].pc \in {"L139", "L142", "L201", "L205", "L217", "L218",
                                 "L221", "L223", "L227", "L228", "L231", "L232"}
            /\ records[worker[w].rec].source = "repo_url"

\* Two jobs that were cloned, one completed and one failed after its clone
\* was made, and the workers are done with both.
C16_Witness ==
    /\ \A w \in Workers : worker[w].pc = "idle" /\ ~worker[w].tmp
    /\ \E i, j \in Stored :
         /\ records[i].source = "repo_url" /\ records[i].status = "completed"
         /\ records[i].completed_at # NoTime
         /\ records[j].source = "repo_url" /\ records[j].status = "failed"
         /\ records[j].error \in LocErrors
         /\ records[j].completed_at # NoTime

\* C17: when a metric write raises, the job is not marked failed and no
\* error is stored for it, and the job goes on to status completed with
\* its LOC result stored.
C17_SinkFailureStillCompletes ==
    /\ [](\A w \in Workers :
            At(w, "L201") =>
                /\ worker[w].exc = NoneStr
                /\ records[worker[w].rec].status = "processing"
                /\ records[worker[w].rec].error = NoneStr)
    /\ \A i \in 1..MaxJobs :
         (\E w \in Workers : At(w, "L201") /\ worker[w].rec = i)
            ~> /\ i <= Len(records)
               /\ records[i].status = "completed"
               /\ records[i].result # NoResult
               /\ records[i].result.total_loc >= 0
               /\ records[i].error = NoneStr

\* A metric write of a job has raised and its handler is running.
C17_Witness ==
    \E w \in Workers :
        /\ At(w, "L201")
        /\ worker[w].loc >= 0
        /\ records[worker[w].rec].status = "processing"

\* C18: a job whose churn computation raised is not failed by it: it gets
\* the zeroed churn and completes; and every completed job's result has a
\* churn entry.
C18_ChurnFailureGivesZeroChurn ==
    /\ \A w \in Workers :
         At(w, "L221") =>
             /\ worker[w].exc = NoneStr
             /\ records[worker[w].rec].status = "processing"
    /\ \A i \in Stored :
         records[i].status = "completed" =>
             /\ records[i].result # NoResult
             /\ records[i].result.churn \in {ZeroChurn, ComputedChurn}
             /\ records[i].source = "local_missing" => records[i].result.churn = ZeroChurn

\* A job of an existing directory whose churn computation raised (only
\* line 221 stores the zeroed churn) and that is completed.
C18_Witness ==
    \E i \in Stored :
        /\ records[i].source \in {"local_dir", "repo_url"}
        /\ records[i].status = "completed"
        /\ records[i].result.churn = ZeroChurn
        /\ records[i].error = NoneStr

\* The requests C19 names, read off the request body (blanks around a
\* value are not part of it).
BothGiven(body) == body.repo_url # Absent /\ body.local_path # Absent

NeitherGiven(body) == body.repo_url = Absent /\ body.local_path = Absent

RelativePath(body) ==
    body.local_path # Absent /\ ~startswith_slash(strip(body.local_path))

TraversalPath(body) ==
    body.local_path # Absent /\ contains_dotdot(strip(body.local_path))

MalformedUrl(body) ==
    body.repo_url # Absent /\ ~GITHUB_URL_PATTERN(strip(body.repo_url))

\* C19: a request with both fields, with neither, with a relative
\* local_path, with a local_path that contains "..", or with a malformed
\* repo_url is answered 400, and no JobRecord is made, nothing enters the
\* job table and nothing is queued.
C19_InvalidRequestRejected ==
    [][ \A body \in Requests :
          ( /\ \/ BothGiven(body)
               \/ NeitherGiven(body)
               \/ RelativePath(body)
               \/ TraversalPath(body)
               \/ MalformedUrl(body)
            /\ CreateJob(body) ) =>
              /\ lastCall' = BadRequest
              /\ UNCHANGED <<records, jobs, queue>> ]_vars

\* A running pool that holds an accepted job and has just answered 400.
C19_Witness ==
    /\ lastCall = BadRequest
    /\ executor = "running"
    /\ Len(records) = 1
    /\ records[1].future

\* pool.py:95-96   WorkerPool.get_job: self._jobs.get(job_id); the record is
\* named by its index, 0 is None.
get_job(id) == jobs[id]

\* C20: once get_job(id) returns a record it returns that same record in
\* every later state, whatever is submitted afterwards; it returns None
\* only for an id under which nothing was stored.
C20_RecordsNeverReplaced ==
    [][ \A id \in JobIds : get_job(id) # 0 => get_job(id)' = get_job(id) ]_vars

\* C21: once a job is completed its result is never written again: every
\* later read of the result gives the same data.
C21_CompletedResultFrozen ==
    [][ \A i \in Stored :
          records[i].status = "completed" =>
              /\ records'[i].status = "completed"
              /\ records'[i].result = records[i].result ]_vars

\* A completed job with its full result, while the worker that ran it
\* still has a field of the record to write (completed_at).
C21_Witness ==
    \E i \in Stored :
        /\ records[i].status = "completed"
        /\ records[i].result # NoResult
        /\ records[i].result.churn # NoChurn
        /\ \E w \in Runner(i) : worker[w].pc = "L231"

\* C22: a job's progress is 100 whenever its status is completed, 0 whenever
\* its status is failed, and at least 10 whenever its status is processing.
C22_ProgressFollowsStatus ==
    \A i \in Stored :
        /\ records[i].status = "completed" =>
               "progress" \in DOMAIN to_dict(i) /\ to_dict(i).progress = 100
        /\ records[i].status = "failed" =>
               "progress" \in DOMAIN to_dict(i) /\ to_dict(i).progress = 0
        /\ records[i].status = "processing" =>
               "progress" \in DOMAIN to_dict(i) /\ to_dict(i).progress >= 10

\* C23: for every file content and both dialects, the FileLOC that
\* count_loc_in_content returns has
\* loc + comment_lines + blank_lines + excluded_lines = total_lines.
C23_LinePartition ==
    counter.pc = "done" =>
        counter.st.loc + counter.st.comment_lines + counter.st.blank_lines
            + counter.st.excluded_lines = counter.st.total_lines

\* A returned FileLOC of a content that has a blank line and a line that is
\* not blank.
C23_Witness ==
    /\ counter.pc = "done"
    /\ counter.st.total_lines >= 2
    /\ counter.st.blank_lines >= 1
    /\ counter.st.loc + counter.st.comment_lines >= 1

\* The loop reads a line of nothing but whitespace and n braces.
ReadPlainLine(n) ==
    /\ counter.pc = "loop"
    /\ \E line \in UNION {[1..k -> {" ", "{"}] : k \in 0..MaxLineLen} :
          /\ Cardinality({k \in DOMAIN line : line[k] = "{"}) = n
          /\ ScanLine(line)

InComment(st) == st.in_block \/ st.in_docstring

\* C26: a line of whitespace and at most one brace is counted as excluded
\* (as blank when it has no brace), also inside an open block comment or
\* docstring; it is never counted as a comment line or a line of code, and
\* the in-comment state stays as it was.
C26_PlainLineSkipped ==
    [][ \A n \in {0, 1} :
          ReadPlainLine(n) =>
            /\ counter'.st.comment_lines = counter.st.comment_lines
            /\ counter'.st.loc = counter.st.loc
            /\ counter'.st.blank_lines = counter.st.blank_lines + (1 - n)
            /\ counter'.st.excluded_lines = counter.st.excluded_lines + n
            /\ counter'.st.in_block = counter.st.in_block
            /\ counter'.st.in_docstring = counter.st.in_docstring
            /\ counter'.st.docstring_quote = counter.st.docstring_quote ]_vars

\* A brace-only line has just been read inside an open block comment or
\* docstring.
C26_Witness ==
    /\ counter.pc = "loop"
    /\ InComment(counter.st)
    /\ counter.st.reason = "excluded"
    /\ counter.st.excluded_lines = 1
    /\ counter.st.comment_lines + counter.st.loc >= 1

\* C27: a mixed line adds one to loc and nothing to comment_lines; comment_lines
\* counts the pure comment lines only, loc the code and mixed lines only.
C27_MixedCountsAsCode ==
    [][ (counter.pc = "loop" /\ counter'.pc = "loop" /\ counter'.pos = counter.pos + 1) =>
          LET counted == counter'.st.reason = "code"
              kind == counter'.st.kind
          IN  /\ counter'.st.loc = counter.st.loc
                    + (IF counted /\ kind \in {"code", "mixed"} THEN 1 ELSE 0)
              /\ counter'.st.comment_lines = counter.st.comment_lines
                    + (IF counted /\ kind = "comment" THEN 1 ELSE 0) ]_vars

\* A mixed line has just been read, after a pure comment line.
C27_Witness ==
    /\ counter.pc = "loop"
    /\ counter.st.reason = "code"
    /\ counter.st.kind = "mixed"
    /\ counter.st.comment_lines = 1
    /\ counter.st.loc = 1

\* The sum of field f over the records of a list.
RECURSIVE Sum(_, _)
Sum(recs, f) == IF recs = <<>> THEN 0 ELSE Head(recs)[f] + Sum(Tail(recs), f)

\* C24: in every ProjectLOC that count_loc_in_directory returns, total_loc is
\* the sum of loc over the files, over the packages and over the modules,
\* total_comment_lines likewise, and total_files is the sum of file_count
\* over the packages.
C24_Rollup ==
    counter.pc = "returned" =>
        LET p == counter.project
        IN  /\ p.total_loc = Sum(p.files, "loc")
            /\ p.total_loc = Sum(p.packages, "loc")
            /\ p.total_loc = Sum(p.modules, "loc")
            /\ p.total_comment_lines = Sum(p.files, "comment_lines")
            /\ p.total_comment_lines = Sum(p.packages, "comment_lines")
            /\ p.total_comment_lines = Sum(p.modules, "comment_lines")
            /\ p.total_files = Sum(p.packages, "file_count")

\* A returned ProjectLOC with files in several packages of several modules.
C24_Witness ==
    /\ counter.pc = "returned"
    /\ Len(counter.project.files) >= 3
    /\ Len(counter.project.packages) >= 2
    /\ Len(counter.project.modules) >= 2
    /\ counter.project.total_loc > 0
    /\ counter.project.total_comment_lines > 0

\* weighted = loc * 1.0 + comment_lines * 0.5, in halves
Weighted(weighted_loc, loc, comment_lines) == weighted_loc = 2 * loc + comment_lines

\* C25: weighted_loc = loc * 1.0 + comment_lines * 0.5 in every FileLOC, in
\* every package and in the project's totals.
C25_WeightedFormula ==
    /\ counter.pc = "done" =>
           Weighted(counter.st.weighted_loc, counter.st.loc, counter.st.comment_lines)
    /\ counter.pc = "returned" =>
           LET p == counter.project
           IN  /\ \A k \in DOMAIN p.files :
                     Weighted(p.files[k].weighted_loc, p.files[k].loc,
                              p.files[k].comment_lines)
               /\ \A k \in DOMAIN p.packages :
                     Weighted(p.packages[k].weighted_loc, p.packages[k].loc,
                              p.packages[k].comment_lines)
               /\ Weighted(p.total_weighted_loc, p.total_loc, p.total_comment_lines)

\* A returned ProjectLOC with a package of two files that have code and
\* comment lines.
C25_Witness ==
    /\ counter.pc = "returned"
    /\ \E k \in DOMAIN counter.project.packages :
          /\ counter.project.packages[k].file_count >= 2
          /\ counter.project.packages[k].comment_lines >= 2
          /\ counter.project.packages[k].loc >= 2

\* The file lies under a directory that is to be left out, or is not a
\* .java, .py or .ts file (is_supported_file does not look at the case of
\* the letters of the extension).
LeftOut(dir, name) ==
    \/ \E k \in DOMAIN dir :
          \/ startswith_dot(dir[k])
          \/ dir[k] \in {"node_modules", "__pycache__", "venv", ".venv", "build", "dist"}
    \/ lower(name[2]) \notin {".java", ".py", ".ts"}

NoneLeftOut(files) ==
    \A k \in DOMAIN files : ~LeftOut(files[k].path[1], files[k].path[2])

\* C28: no file under a directory whose relative path has a name that starts
\* with "." or is node_modules, __pycache__, venv, .venv, build or dist, at
\* any depth, and no file other than a .java, .py or .ts file, is in the
\* ProjectLOC or in any of its totals.
C28_SkippedNeverCounted ==
    counter.pc \in {"walk", "returned"} =>
        LET p == counter.project
        IN  /\ NoneLeftOut(p.files)
            /\ \A k \in DOMAIN counter.package_map : NoneLeftOut(counter.package_map[k].files)
            /\ \A k \in DOMAIN p.packages : NoneLeftOut(p.packages[k].files)
            /\ p.total_files = Len(p.files)
            /\ p.total_loc = Sum(p.files, "loc")
            /\ p.total_blank_lines = Sum(p.files, "blank_lines")
            /\ p.total_excluded_lines = Sum(p.files, "excluded_lines")
            /\ p.total_comment_lines = Sum(p.files, "comment_lines")
            /\ p.total_weighted_loc = Sum(p.files, "weighted_loc")
            /\ \A k \in DOMAIN counter.package_map :
                  /\ counter.package_map[k].file_count = Len(counter.package_map[k].files)
                  /\ counter.package_map[k].loc = Sum(counter.package_map[k].files, "loc")

\* A returned ProjectLOC of a tree that has a source file in a directory
\* under .git, one in a build directory under app, one that is counted.
C28_Witness ==
    /\ counter.pc = "returned"
    /\ \E f \in counter.tree : f.dir = <<".git", "lib">> /\ is_supported_file(f.name)
    /\ \E f \in counter.tree : f.dir = <<"app", "build">> /\ is_supported_file(f.name)
    /\ counter.project.total_files = 1

\* C29: two runs of count_loc_in_directory over the same unchanged tree
\* return the same ProjectLOC, the order of its files list included, in
\* whatever order the file system enumerates directories and files.
C29_RunsAgree ==
    (counter.pc = "returned" /\ counter.run = 2) => counter.project = counter.first

Ascending(recs) ==
    \A k \in 1..(Len(recs) - 1) : KeyLess(recs[k].key, recs[k + 1].key)

\* C30: the packages list is in ascending order of package key and the
\* modules list in ascending order of module key, no key twice, whatever
\* order the walk visited the directories in.
C30_KeysAscending ==
    counter.pc = "returned" =>
        /\ Ascending(counter.project.packages)
        /\ Ascending(counter.project.modules)
        /\ Len(counter.project.packages) = Len(counter.package_map)
        /\ Len(counter.project.modules) = Len(counter.module_map)

\* A returned ProjectLOC whose walk came to the packages and the modules in
\* descending order of key.
C30_Witness ==
    /\ counter.pc = "returned"
    /\ Len(counter.package_map) >= 2
    /\ KeyLess(counter.package_map[2].key, counter.package_map[1].key)
    /\ Len(counter.module_map) >= 2
    /\ KeyLess(counter.module_map[2].key, counter.module_map[1].key)


\* C31: a supported file whose reading raises an I/O error during a
\* directory scan is skipped: it is in no list and adds to no total; the scan
\* goes on with the other files and returns, and the rollup holds for the
\* files that were read.
C31_UnreadableFileSkipped ==
    counter.pc \in {"walk", "returned"} =>
        LET p == counter.project
            read(files) == \A k \in DOMAIN files : files[k].path[2] # <<"locked", ".py">>
        IN  /\ read(p.files)
            /\ \A k \in DOMAIN counter.package_map : read(counter.package_map[k].files)
            /\ p.total_files = Len(p.files)
            /\ p.total_loc = Sum(p.files, "loc")
            /\ p.total_comment_lines = Sum(p.files, "comment_lines")
            /\ p.total_blank_lines = Sum(p.files, "blank_lines")
            /\ p.total_excluded_lines = Sum(p.files, "excluded_lines")
            /\ p.total_weighted_loc = Sum(p.files, "weighted_loc")
            /\ counter.pc = "returned" =>
                  /\ \A f \in counter.tree :
                        (~LeftOut(f.dir, f.name) /\ f.name # <<"locked", ".py">>) =>
                            \E k \in DOMAIN p.files : p.files[k].path = <<f.dir, f.name>>
                  /\ p.total_loc = Sum(p.packages, "loc")
                  /\ p.total_loc = Sum(p.modules, "loc")
                  /\ p.total_files = Sum(p.packages, "file_count")
                  /\ p.total_files = Sum(p.modules, "file_count")

\* A returned ProjectLOC of a tree with the unreadable file in a counted
\* directory, a file before it and a file after it in the same directory.
C31_Witness ==
    /\ counter.pc = "returned"
    /\ \E d \in FileDirs :
          /\ ~skipped(d)
          /\ [dir |-> d, name |-> <<"locked", ".py">>] \in counter.tree
          /\ [dir |-> d, name |-> <<"Main", ".java">>] \in counter.tree
          /\ [dir |-> d, name |-> <<"util", ".py">>] \in counter.tree
    /\ counter.project.total_files = 2

\* A churn dict: four values that are not negative, modified the smaller of
\* added and deleted, total their sum.
ChurnDict(c) ==
    /\ c.added >= 0 /\ c.deleted >= 0 /\ c.modified >= 0 /\ c.total >= 0
    /\ c.modified <= c.added /\ c.modified <= c.deleted
    /\ c.modified \in {c.added, c.deleted}
    /\ c.total = c.added + c.deleted

\* C32: every churn result, of a commit, of a date range and of a day, has
\* modified = min(added, deleted) and total = added + deleted, none of the
\* four negative; added and deleted of a range or of a day are the sums
\* over its commits.
C32_ChurnArithmetic ==
    [][ /\ ChurnDict(counter'.churn)
        /\ (counter.pc = "parse" /\ counter'.pc = "commits") =>
              /\ counter'.total_added + Sum(counter'.daily, "added")
                    = counter.total_added + Sum(counter.daily, "added")
                          + counter'.churn.added
              /\ counter'.total_deleted + Sum(counter'.daily, "deleted")
                    = counter.total_deleted + Sum(counter.daily, "deleted")
                          + counter'.churn.deleted
              /\ \A k \in DOMAIN counter.daily :
                    counter.daily[k].day # counter.day =>
                        counter'.daily[k] = counter.daily[k]
              /\ \A k \in DOMAIN counter'.daily, j \in DOMAIN counter'.daily :
                    counter'.daily[k].day = counter'.daily[j].day => k = j
        /\ (counter'.pc = "returned" /\ counter.fn = "compute_repo_churn") =>
              /\ ChurnDict(counter'.result)
              /\ counter'.result.added = counter.total_added
              /\ counter'.result.deleted = counter.total_deleted
        /\ (counter'.pc = "returned" /\ counter.fn = "compute_daily_churn") =>
              /\ DOMAIN counter'.result = DOMAIN counter.daily
              /\ \A k \in DOMAIN counter.daily :
                    /\ ChurnDict(counter'.result[k])
                    /\ counter'.result[k].day = counter.daily[k].day
                    /\ counter'.result[k].added = counter.daily[k].added
                    /\ counter'.result[k].deleted = counter.daily[k].deleted ]_vars

\* A returned daily churn of two commits of the same day, with added and
\* deleted lines.
C32_Witness ==
    /\ counter.pc = "returned"
    /\ counter.fn = "compute_daily_churn"
    /\ counter.commits = 2
    /\ Len(counter.result) = 1
    /\ counter.result[1].added = 12
    /\ counter.result[1].modified = 2

\* A worker thread begins _run_job for record i in this step.
Begins(i) ==
    \E w \in Workers :
        worker[w].pc = "idle" /\ worker'[w].pc = "L124" /\ worker'[w].rec = i

\* The step is a step of the worker thread that runs record i.
OwnerStep(i) == \E w \in Runner(i) : worker'[w] # worker[w]

C34_TableOpsUnderLock ==
    [][ /\ (health.pc = "L110" /\ health'.pc = "done") => HealthHoldsLock
        /\ health.pc \in {"L106", "L107", "L108", "L110"} => jobs' = jobs ]_vars

\* C35: within one job the steps come in order.  The LOC scan (line 139)
\* starts only when the clone has returned: the path to scan is resolved
\* and, for a repo_url, the snapshot is on disk.  The churn computation
\* (line 217) starts only when the scan has finished and its total is
\* stored.  The snapshot is released only by the cleanup of line 232, when
\* the scan and the churn computation have both finished: the total and a
\* churn entry are stored, or an exception has ended the try block.
C35_StepsInOrder ==
    [][ \A w \in Workers :
          LET i == worker[w].rec
              over == \/ worker[w].exc # NoneStr
                      \/ /\ worker[w].loc # -1
                         /\ records[i].result # NoResult
                         /\ records[i].result.churn # NoChurn
          IN  /\ (At(w, "L139") /\ worker'[w].pc # "L139") =>
                    /\ worker[w].repo # "none"
                    /\ records[i].source = "repo_url" => worker[w].tmp
              /\ (At(w, "L217") /\ worker'[w].pc # "L217") =>
                    /\ worker[w].loc # -1
                    /\ records[i].result # NoResult
                    /\ records[i].result.total_loc = worker[w].loc
                    /\ records[i].source = "repo_url" => worker[w].tmp
              /\ (worker[w].tmp /\ ~worker'[w].tmp) => At(w, "L232")
              /\ (At(w, "L232") /\ worker'[w].pc # "L232") => over ]_vars

\* The cleanup of a cloned job whose total and churn are both stored.
C35_Witness ==
    \E w \in Workers :
        /\ At(w, "L232")
        /\ worker[w].tmp
        /\ worker[w].exc = NoneStr
        /\ worker[w].loc = DirLoc
        /\ records[worker[w].rec].result.churn = ComputedChurn

\* C36: a job with a local_path works on that directory itself.  clone()
\* is never called for it: the path scanned and handed to the churn
\* computation is the local path, no temp directory is ever made, and so
\* the cleanup of line 232 finds no temp directory and removes nothing.
C36_LocalPathInPlace ==
    [][ \A w \in Workers :
          (/\ worker'[w].pc # "idle"
           /\ records'[worker'[w].rec].source \in {"local_dir", "local_missing"})
          => /\ ~worker'[w].tmp
             /\ worker'[w].repo \in {"none", records'[worker'[w].rec].source}
             /\ (At(w, "L131") /\ worker'[w].pc # "L131") =>
                    /\ worker'[w].pc = "L139"
                    /\ worker'[w].repo = records[worker[w].rec].source ]_vars

\* The cleanup of a completed job that scanned a local directory.
C36_Witness ==
    \E w \in Workers :
        /\ At(w, "L232")
        /\ records[worker[w].rec].source = "local_dir"
        /\ records[worker[w].rec].status = "completed"
        /\ worker[w].repo = "local_dir"
        /\ ~worker[w].tmp

\* The line is neither blank nor excluded and it has this delimiter.
CountedWith(line, delimiter) ==
    /\ _should_skip_line(line) = "code"
    /\ index(strip(line), delimiter) # 0

\* C37: a call of count_loc_in_content starts outside of a comment,
\* whatever an earlier call ended in.  Whichever line the loop reads next,
\* the state becomes in-comment only on a counted line that does not start
\* with // or # and has an opener with no closing delimiter after it, and it
\* becomes not-in-comment only on a counted line that has the closing
\* delimiter: */ in the c-style dialect, in Python the triple quote that
\* opened the docstring.
C37_CommentState ==
    counter.pc = "loop" =>
        LET st == counter.st
            python == st.language = "python"
        IN  /\ counter.pos = 0 => ~InComment(st)
            /\ st.in_block => ~python
            /\ st.in_docstring => python /\ st.docstring_quote \in {DocQuotes[1], DocQuotes[2]}
            /\ \A line \in LinesOf(st.language) :
                 LET next(st2) ==
                        /\ (~InComment(st) /\ InComment(st2)) =>
                              IF python
                              THEN /\ ~_PY_SINGLE_COMMENT_RE(strip(line))
                                   /\ CountedWith(line, st2.docstring_quote)
                                   /\ index(after(strip(line), st2.docstring_quote),
                                            st2.docstring_quote) = 0
                              ELSE /\ ~_SINGLE_LINE_COMMENT_RE(strip(line))
                                   /\ CountedWith(line, _ML_OPEN)
                                   /\ index(after(strip(line), _ML_OPEN), _ML_CLOSE) = 0
                        /\ (InComment(st) /\ ~InComment(st2)) =>
                              CountedWith(line, IF python THEN st.docstring_quote
                                                          ELSE _ML_CLOSE)
                 IN  next(loop_body(st, line))

\* The first line of a Python file had code and then three single quotes
\* that the line does not close: the loop is inside that docstring.
C37_Witness ==
    /\ counter.pc = "loop"
    /\ counter.pos = 1
    /\ counter.st.total_lines = 2
    /\ counter.st.kind = "mixed"
    /\ counter.st.in_docstring
    /\ counter.st.docstring_quote = DocQuotes[2]

\* C38: inside a block comment or docstring, a counted line without the
\* closing delimiter is a comment line and the state stays in-comment; a
\* counted line with the closing delimiter closes the comment, and it is
\* counted as a line of code (mixed) when something other than whitespace
\* and a lone brace follows the delimiter, as a comment line otherwise.  A
\* file that ends inside the comment is returned like any other: every
\* line is counted and no error is raised.
C38_InsideComment ==
    /\ (counter.pc = "loop" /\ InComment(counter.st)) =>
          LET st == counter.st
              closer == IF st.language = "python" THEN st.docstring_quote ELSE _ML_CLOSE
          IN  \A line \in LinesOf(st.language) :
                _should_skip_line(line) = "code" =>
                   LET next(st2, tail) ==
                          IF index(strip(line), closer) = 0
                          THEN /\ st2.kind = "comment"
                               /\ InComment(st2)
                               /\ st2.docstring_quote = st.docstring_quote
                               /\ st2.comment_lines = st.comment_lines + 1
                               /\ st2.loc = st.loc
                          ELSE /\ ~InComment(st2)
                               /\ IF strip(tail) # <<>> /\ ~_SKIP_LINE_RE(strip(tail))
                                  THEN /\ st2.kind = "mixed"
                                       /\ st2.loc = st.loc + 1
                                       /\ st2.comment_lines = st.comment_lines
                                  ELSE /\ st2.kind = "comment"
                                       /\ st2.loc = st.loc
                                       /\ st2.comment_lines = st.comment_lines + 1
                   IN  next(loop_body(st, line), after(strip(line), closer))
    /\ (counter.pc = "done" /\ InComment(counter.st)) =>
          /\ counter.st.loc + counter.st.comment_lines + counter.st.blank_lines
                + counter.st.excluded_lines = counter.st.total_lines
          /\ counter.st.weighted_loc =
                calculate_weighted_loc(counter.st.loc, counter.st.comment_lines)

\* A c-style file that was returned with its block comment open: the
\* comment was opened on the first line and the second is a comment line.
C38_Witness ==
    /\ counter.pc = "done"
    /\ counter.st.in_block
    /\ counter.st.total_lines = 2
    /\ counter.st.comment_lines = 2
    /\ counter.st.kind = "comment"
    /\ counter.st.reason = "code"

\* The module that the key of a package names: its first path segment.
ModuleOf(pkg) == IF pkg.key = <<"(root)">> THEN <<"(root)">> ELSE <<pkg.key[1]>>

\* C39: in a returned ProjectLOC every package is in the packages list of
\* exactly one module, once, and that module is the one its key names:
\* the first path segment, "(root)" for the root package.  The lists hold
\* packages of the project only, and loc, comment_lines and file_count of
\* each module are the sums over the packages of its list.
C39_PackagesInModules ==
    counter.pc = "returned" =>
        LET p == counter.project
            places(pkg) == {<<m, j>> \in (DOMAIN p.modules) \X (1..Len(p.packages)) :
                               /\ j <= Len(p.modules[m].packages)
                               /\ p.modules[m].packages[j] = pkg}
        IN  /\ \A k \in DOMAIN p.packages :
                  /\ Cardinality(places(p.packages[k])) = 1
                  /\ \A pl \in places(p.packages[k]) :
                        p.modules[pl[1]].key = ModuleOf(p.packages[k])
            /\ \A m \in DOMAIN p.modules :
                  LET mod == p.modules[m]
                  IN  /\ Len(mod.packages) <= Len(p.packages)
                      /\ \A j \in DOMAIN mod.packages :
                            \E k \in DOMAIN p.packages : p.packages[k] = mod.packages[j]
                      /\ mod.loc = Sum(mod.packages, "loc")
                      /\ mod.comment_lines = Sum(mod.packages, "comment_lines")
                      /\ mod.file_count = Sum(mod.packages, "file_count")

\* A returned ProjectLOC with a module of two packages and another module.
C39_Witness ==
    /\ counter.pc = "returned"
    /\ Len(counter.project.modules) = 2
    /\ \E m \in DOMAIN counter.project.modules :
          /\ Len(counter.project.modules[m].packages) = 2
          /\ counter.project.modules[m].loc > 0
          /\ counter.project.modules[m].packages[2].key = <<"app", "lib">>

\* C40: in a returned ProjectLOC the package_count of every module is the
\* number of packages in the module's packages list.
C40_PackageCount ==
    counter.pc = "returned" =>
        \A m \in DOMAIN counter.project.modules :
            counter.project.modules[m].package_count =
                Len(counter.project.modules[m].packages)
====
